---- MODULE Spec2Model ----
(***************************************************************************)
(* Model of danavi's session loop (src/src/main.rs), key handling          *)
(* (src/src/tui.rs), audio sink wrapper (src/src/audio.rs) and the         *)
(* bus-visible MPRIS state (src/src/mpris.rs).                             *)
(*                                                                         *)
(* Conventions: Option<String> is a string with None == "None";            *)
(* Option<usize> (the list cursor) is an integer with NoSel == -1; indices *)
(* are 0-based as in the source, sequences are indexed with +1.            *)
(* Song keeps the fields the conversions in the source treat differently   *)
(* (id, album_id, album, duration); title and artist are copied verbatim   *)
(* by every conversion and are left out.                                   *)
(***************************************************************************)
EXTENDS Integers, Sequences, FiniteSets, TLC

VARIABLES
    current_view, artists, albums, songs, search_results, selected,
    current_artist_id, current_album_id,
    in_search, help_open, search_string, status_message_timeout,
    queue, current_playback_source,
    sink, mpris,
    mpris_command_rx,
    mpris_state_lock, loop_steps,
    now, last_message_check, message_set_at,
    volume, sink_volume,
    mpris_state, bus_from, bus_updates, observed,
    run_start, finishes,
    pc, last, drill

navVars == <<current_view, artists, albums, songs, search_results, selected,
             current_artist_id, current_album_id>>
modeVars == <<in_search, help_open, search_string>>
playVars == <<queue, current_playback_source, sink, mpris>>
lockVars == <<mpris_state_lock, loop_steps>>
(* state that only the focused specifications further down let change *)
clockVars == <<now, last_message_check, message_set_at>>
volumeVars == <<volume, sink_volume>>
busVars == <<mpris_state, bus_from, bus_updates, observed>>
runVars == <<run_start, finishes>>
sideVars == <<lockVars, clockVars, volumeVars, busVars, runVars>>
notLock == <<clockVars, volumeVars, busVars, runVars>>
notClock == <<lockVars, volumeVars, busVars, runVars>>
notVolume == <<lockVars, clockVars, busVars, runVars>>
notBus == <<lockVars, clockVars, volumeVars, runVars>>
notRun == <<lockVars, clockVars, volumeVars, busVars>>
vars == <<navVars, modeVars, status_message_timeout, playVars, mpris_command_rx,
          sideVars, pc, last, drill>>

(* ---------------- bounds ---------------- *)
MaxQueue == 2
MaxQueryLen == 1
MaxPending == 2
MaxTime == 8
MaxAwait == 2
MaxFinishes == 4

(* ---------------- option encodings ---------------- *)
(* App::show_message stores the text and its timeout together and            *)
(* App::clear_message drops both; the model keeps status_message_timeout     *)
(* (NoTimeout when no message is on display)                                 *)
None == "None"
NoSel == 0 - 1
NoDuration == 0 - 1
NoTimeout == 0 - 1

(* timeouts passed to App::show_message *)
ErrorTimeout == 3000
PlayingTimeout == 2000
NoticeTimeout == 1500

(* ---------------- the media server behind SubsonicClient ---------------- *)
ServerDuration == 180

ServerArtists == <<"a1", "a2">>

ServerAlbums(artist_id) ==
    IF artist_id = "a1"
    THEN << [id |-> "b1", artist_id |-> "a1"], [id |-> "b2", artist_id |-> "a1"] >>
    ELSE << >>

ServerSongIds(album_id) ==
    IF album_id = "b1" THEN <<"s1", "s2", "s3">>
    ELSE IF album_id = "b2" THEN <<"s4">>
    ELSE << >>

ServerSearchAlbums(query) ==
    IF query = <<"x">> THEN << [id |-> "b2", artist_id |-> "a1"] >>
    ELSE IF query = <<"y">>
    THEN << [id |-> "b2", artist_id |-> "a1"], [id |-> "b1", artist_id |-> "a1"] >>
    ELSE << >>

ServerSearchSongs(query) ==
    IF query = <<"x">> THEN << [id |-> "s1", album_id |-> "b1"] >>
    ELSE IF query = <<"y">>
    THEN << [id |-> "s2", album_id |-> "b1"], [id |-> "s1", album_id |-> "b1"] >>
    ELSE << >>

QueryChars == {"x"}

(* the characters typed where the search itself is under study *)
SearchChars == {"x", "y"}

(* ---------------- types.rs ---------------- *)
ViewType == {"Artists", "Albums", "Songs", "Search"}

NoSource == [kind |-> "None", album_songs |-> << >>, current_index |-> 0]
SourceQueue == [kind |-> "Queue", album_songs |-> << >>, current_index |-> 0]
SourceSearch == [kind |-> "Search", album_songs |-> << >>, current_index |-> 0]
SourceAlbum(album_songs, current_index) ==
    [kind |-> "Album", album_songs |-> album_songs, current_index |-> current_index]

(* load_songs: Song built from the album response *)
SongFromAlbum(id, album_id) ==
    [id |-> id, album_id |-> album_id, album |-> album_id, duration |-> ServerDuration]

(* handle_select / AddToQueue: Song built from a search song hit *)
SongFromHit(hit) ==
    [id |-> hit.id, album_id |-> hit.album_id, album |-> None, duration |-> NoDuration]

(* mpris::Song built by play_song *)
MprisSong(song) ==
    [id |-> song.id, album |-> song.album, duration |-> song.duration]

NoMprisSong == [id |-> None, album |-> None, duration |-> NoDuration]

(* Previous, non-album source: Song rebuilt from the bus-visible track *)
SongFromMpris(ms) ==
    [id |-> ms.id, album_id |-> None, album |-> ms.album, duration |-> ms.duration]

(* Action::Search: album hits first, then song hits *)
SearchItems(query) ==
    [i \in 1..Len(ServerSearchAlbums(query)) |->
        [tag |-> "Album", id |-> ServerSearchAlbums(query)[i].id,
         artist_id |-> ServerSearchAlbums(query)[i].artist_id, album_id |-> None]]
    \o
    [i \in 1..Len(ServerSearchSongs(query)) |->
        [tag |-> "Song", id |-> ServerSearchSongs(query)[i].id,
         artist_id |-> None, album_id |-> ServerSearchSongs(query)[i].album_id]]

LoadedSongs(album_id) ==
    [i \in 1..Len(ServerSongIds(album_id)) |->
        SongFromAlbum(ServerSongIds(album_id)[i], album_id)]

(* ---------------- tui.rs: App helpers ---------------- *)
(* App::set_items *)
set_items(items) == IF Len(items) > 0 THEN 0 ELSE NoSel

items_count ==
    CASE current_view = "Artists" -> Len(artists)
      [] current_view = "Albums" -> Len(albums)
      [] current_view = "Songs" -> Len(songs)
      [] current_view = "Search" -> Len(search_results)

(* App::next *)
app_next ==
    IF items_count = 0 THEN selected
    ELSE IF selected = NoSel THEN 0
    ELSE IF selected >= items_count - 1 THEN 0
    ELSE selected + 1

(* App::previous *)
app_previous ==
    IF items_count = 0 THEN selected
    ELSE IF selected = NoSel THEN 0
    ELSE IF selected = 0 THEN items_count - 1
    ELSE selected - 1

(* Vec::get(idx).is_some() *)
InRange(list, idx) == idx >= 0 /\ idx < Len(list)

(* ---------------- audio.rs over rodio::Sink ---------------- *)
(* Sink::stop empties the sink; Sink::clear removes the sources and pauses *)
StoppedSink == [empty |-> TRUE, paused |-> TRUE]

(* AudioPlayer::play_bytes after a successful decode: append + play *)
LoadedSink == [empty |-> FALSE, paused |-> FALSE]

(* AudioPlayer::toggle_pause *)
toggle_pause(s) ==
    IF s.paused THEN [s EXCEPT !.paused = FALSE]
    ELSE IF ~s.empty THEN [s EXCEPT !.paused = TRUE]
    ELSE s

is_paused(s) == s.paused
is_finished(s) == s.empty

(* ---------------- history ---------------- *)
(* last: the handler that ran last, how its play or load attempt ended, the *)
(* id of the song it handed to play_song, and the PlaybackSource it found   *)
Did(op, out, song) ==
    [op |-> op, out |-> out, song |-> song, before |-> current_playback_source]

PlayOutcomes == {"ok", "fetch_fail", "decode_fail"}
LoadOutcomes == {"ok", "load_fail"}

(* ---------------- Init: main() up to the loop ---------------- *)
(* Arc::new(RwLock::new(MprisState::default())): nobody holds or awaits the *)
(* lock, and the loop is inside no handler                                  *)
LockInit ==
    /\ mpris_state_lock = [readers |-> {}, writer |-> None, waiters |-> << >>]
    /\ loop_steps = << >>

(* `let mut last_message_check = Instant::now()` directly after the initial  *)
(* load: the clock starts there. message_set_at is history: when the message *)
(* on display, or the last one that was, was set                             *)
ClockInit ==
    /\ now = 0
    /\ last_message_check = 0
    /\ message_set_at = 0

(* Sink::set_volume(1.0) in AudioPlayer::new, MprisState::default() with    *)
(* volume 1.0 and update_volume(audio_player.get_volume()); volumes are in  *)
(* tenths                                                                   *)
VolumeInit ==
    /\ sink_volume = 10
    /\ volume = 10

(* MprisState::default(): Stopped, no track. mpris_state is the value under  *)
(* the lock at this moment; bus_updates are the update_* calls the running   *)
(* handler has still to make, bus_from the value under the lock when that    *)
(* handler began, and observed what a property reader that holds its read    *)
(* guard has read                                                            *)
NoRead == [playback_status |-> None, current_song |-> None]

BusInit ==
    /\ mpris_state = [playback_status |-> "Stopped", current_song |-> NoMprisSong]
    /\ bus_from = [playback_status |-> "Stopped", current_song |-> NoMprisSong]
    /\ bus_updates = << >>
    /\ observed = NoRead

(* history of an album run: the index it was started at and the number of *)
(* tracks that have played to their end since                             *)
RunInit ==
    /\ run_start = NoSel
    /\ finishes = 0

SideInit == LockInit /\ ClockInit /\ VolumeInit /\ BusInit /\ RunInit

Init ==
    /\ current_view = "Artists"
    /\ albums = << >>
    /\ songs = << >>
    /\ search_results = << >>
    /\ current_artist_id = None
    /\ current_album_id = None
    /\ in_search = FALSE
    /\ help_open = FALSE
    /\ search_string = << >>
    /\ queue = << >>
    /\ current_playback_source = NoSource
    /\ sink = [empty |-> TRUE, paused |-> FALSE]
    /\ mpris = [playback_status |-> "Stopped", current_song |-> NoMprisSong]
    /\ mpris_command_rx = << >>
    /\ SideInit
    /\ pc = "tick"
    /\ drill = 0
    /\ \E out \in LoadOutcomes :
         /\ artists = IF out = "ok" THEN ServerArtists ELSE << >>
         /\ selected = IF out = "ok" THEN set_items(ServerArtists) ELSE 0
         /\ status_message_timeout = IF out = "ok" THEN NoTimeout ELSE ErrorTimeout
         /\ last = [op |-> "Init", out |-> out, song |-> None, before |-> NoSource]


(* ---------------- main.rs: playback helpers ---------------- *)
(* MprisServer::update_current_song(None, None) + update_playback_status(Stopped) *)
ReportStopped == [playback_status |-> "Stopped", current_song |-> NoMprisSong]

(* play_song: `out` is where the attempt ends ("ok", or the `?` that returns   *)
(* early); `before` is app.current_playback_source when play_song is entered;  *)
(* `report` is TRUE when the caller turns the Err into a status message.       *)
play_song(song, source, out, before, report) ==
    /\ sink' = CASE out = "fetch_fail" -> sink
                 [] out = "decode_fail" -> StoppedSink
                 [] OTHER -> LoadedSink
    /\ mpris' = IF out = "ok"
                THEN [playback_status |-> "Playing", current_song |-> MprisSong(song)]
                ELSE mpris
    /\ current_playback_source' = IF out = "ok" THEN source ELSE before
    /\ status_message_timeout' = IF out # "ok" /\ report THEN ErrorTimeout ELSE PlayingTimeout

(* mutant: takes the newest entry (Vec::pop) instead of remove(0) *)
play_next_in_queue_pop_last(out, report) ==
    IF queue # << >>
    THEN /\ queue' = SubSeq(queue, 1, Len(queue) - 1)
         /\ play_song(queue[Len(queue)], SourceQueue, out, current_playback_source, report)
    ELSE /\ mpris' = ReportStopped
         /\ UNCHANGED <<queue, current_playback_source, sink, status_message_timeout>>

play_next_in_queue(out, report) ==
    IF queue # << >>
    THEN /\ queue' = Tail(queue)
         /\ play_song(Head(queue), SourceQueue, out, current_playback_source, report)
    ELSE /\ mpris' = ReportStopped
         /\ UNCHANGED <<queue, current_playback_source, sink, status_message_timeout>>

(* mutant: records the old index with the next song *)
play_next_in_album_stale_index(album_songs, current_index, out) ==
    LET next_index == current_index + 1 IN
    IF next_index < Len(album_songs)
    THEN play_song(album_songs[next_index + 1], SourceAlbum(album_songs, current_index),
                   out, NoSource, FALSE)
    ELSE /\ current_playback_source' = NoSource
         /\ mpris' = ReportStopped
         /\ UNCHANGED <<sink, status_message_timeout>>

(* mutant: past the last track the album starts over *)
play_next_in_album_wrap(album_songs, current_index, out) ==
    LET next_index == (current_index + 1) % Len(album_songs) IN
    play_song(album_songs[next_index + 1], SourceAlbum(album_songs, next_index),
              IF out = "none" THEN "ok" ELSE out, NoSource, FALSE)

(* mutant: past the last track the source is kept, with the index moved on *)
play_next_in_album_keeps_index(album_songs, current_index, out) ==
    LET next_index == current_index + 1 IN
    IF next_index < Len(album_songs)
    THEN play_song(album_songs[next_index + 1], SourceAlbum(album_songs, next_index),
                   out, NoSource, FALSE)
    ELSE /\ current_playback_source' = SourceAlbum(album_songs, next_index)
         /\ mpris' = ReportStopped
         /\ UNCHANGED <<sink, status_message_timeout>>

(* the caller has already taken the source: app.current_playback_source is None *)
play_next_in_album(album_songs, current_index, out) ==
    LET next_index == current_index + 1 IN
    IF next_index < Len(album_songs)
    THEN play_song(album_songs[next_index + 1], SourceAlbum(album_songs, next_index),
                   out, NoSource, FALSE)
    ELSE /\ current_playback_source' = NoSource
         /\ mpris' = ReportStopped
         /\ UNCHANGED <<sink, status_message_timeout>>

(* mutant: Previous at index 0 wraps to the last track *)
play_previous_in_album_wrap(album_songs, current_index, out) ==
    LET prev_index == (current_index + Len(album_songs) - 1) % Len(album_songs) IN
    play_song(album_songs[prev_index + 1], SourceAlbum(album_songs, prev_index),
              out, NoSource, FALSE)

play_previous_in_album(album_songs, current_index, out) ==
    IF current_index > 0
    THEN play_song(album_songs[(current_index - 1) + 1],
                   SourceAlbum(album_songs, current_index - 1), out, NoSource, FALSE)
    ELSE play_song(album_songs[current_index + 1],
                   SourceAlbum(album_songs, current_index), out, NoSource, FALSE)

(* which outcomes a step can have: a play attempt can fail, no attempt cannot *)
Outcomes(attempt) == IF attempt THEN PlayOutcomes ELSE {"none"}

(* ---------------- the remote-control bus (mpris.rs) ---------------- *)
(* SetVolume, Seek and SetPosition touch none of the state modelled here *)
MprisCommand == {"Play", "Pause", "PlayPause", "Stop", "Next", "Previous", "Seek"}

(* the track in the sink plays to its end *)
SinkTrackEnds ==
    /\ pc # "done"
    /\ ~sink.empty /\ ~sink.paused
    /\ sink' = [sink EXCEPT !.empty = TRUE]
    /\ last' = Did("TrackEnds", "none", None)
    /\ UNCHANGED <<navVars, modeVars, status_message_timeout, queue, current_playback_source,
                   mpris, mpris_command_rx, sideVars, pc, drill>>

(* mutant: the drain takes the newest pending command first *)
RecvNewest(cmd) ==
    /\ pc = "drain"
    /\ cmd \in MprisCommand
    /\ IF mpris_command_rx = << >>
       THEN UNCHANGED mpris_command_rx
       ELSE /\ cmd = mpris_command_rx[Len(mpris_command_rx)]
            /\ mpris_command_rx' = SubSeq(mpris_command_rx, 1, Len(mpris_command_rx) - 1)
    /\ UNCHANGED <<navVars, modeVars, sideVars, pc, drill>>

(* one turn of `while let Ok(command) = mpris_command_rx.try_recv()`: the    *)
(* channel is unbounded and fed by the bus thread (PlayerInterface methods). *)
(* mpris_command_rx holds the commands sent and not yet received; try_recv   *)
(* yields the oldest of them, and on an empty channel it can still yield a   *)
(* command that the bus thread sends at that very moment                     *)
Recv(cmd) ==
    /\ pc = "drain"
    /\ cmd \in MprisCommand
    /\ IF mpris_command_rx = << >>
       THEN UNCHANGED mpris_command_rx
       ELSE /\ cmd = Head(mpris_command_rx)
            /\ mpris_command_rx' = Tail(mpris_command_rx)
    /\ UNCHANGED <<navVars, modeVars, sideVars, pc, drill>>

(* mutant: Play looks at the queue before it looks at the paused sink *)
CmdPlayQueueFirst ==
    /\ Recv("Play")
    /\ \E out \in Outcomes(queue # << >>) :
         /\ last' = Did("CmdPlay", out, IF out = "none" THEN None ELSE Head(queue).id)
         /\ IF queue # << >>
            THEN play_next_in_queue(out, FALSE)
            ELSE IF is_paused(sink)
            THEN /\ sink' = toggle_pause(sink)
                 /\ mpris' = [mpris EXCEPT !.playback_status = "Playing"]
                 /\ UNCHANGED <<queue, current_playback_source, status_message_timeout>>
            ELSE UNCHANGED <<playVars, status_message_timeout>>

CmdPlay ==
    /\ Recv("Play")
    /\ \E out \in Outcomes(~is_paused(sink) /\ queue # << >>) :
         /\ last' = Did("CmdPlay", out, IF out = "none" THEN None ELSE Head(queue).id)
         /\ IF is_paused(sink)
            THEN /\ sink' = toggle_pause(sink)
                 /\ mpris' = [mpris EXCEPT !.playback_status = "Playing"]
                 /\ UNCHANGED <<queue, current_playback_source, status_message_timeout>>
            ELSE IF queue # << >>
            THEN play_next_in_queue(out, FALSE)
            ELSE UNCHANGED <<playVars, status_message_timeout>>

CmdPause ==
    /\ Recv("Pause")
    /\ last' = Did("CmdPause", "none", None)
    /\ IF ~is_paused(sink) /\ ~is_finished(sink)
       THEN /\ sink' = toggle_pause(sink)
            /\ mpris' = [mpris EXCEPT !.playback_status = "Paused"]
       ELSE UNCHANGED <<sink, mpris>>
    /\ UNCHANGED <<queue, current_playback_source, status_message_timeout>>

CmdPlayPause ==
    /\ Recv("PlayPause")
    /\ last' = Did("CmdPlayPause", "none", None)
    /\ sink' = toggle_pause(sink)
    /\ mpris' = IF is_paused(sink')
                THEN [mpris EXCEPT !.playback_status = "Paused"]
                ELSE IF ~is_finished(sink')
                THEN [mpris EXCEPT !.playback_status = "Playing"]
                ELSE mpris
    /\ UNCHANGED <<queue, current_playback_source, status_message_timeout>>

(* mutant: Stop halts the sink and leaves the reported status as it was *)
CmdStopKeepsStatus ==
    /\ Recv("Stop")
    /\ last' = Did("CmdStop", "none", None)
    /\ sink' = StoppedSink
    /\ UNCHANGED <<queue, current_playback_source, mpris, status_message_timeout>>

CmdStop ==
    /\ Recv("Stop")
    /\ last' = Did("CmdStop", "none", None)
    /\ sink' = StoppedSink
    /\ mpris' = [mpris EXCEPT !.playback_status = "Stopped"]
    /\ UNCHANGED <<queue, current_playback_source, status_message_timeout>>

(* the song an advance hands to play_song, None when it starts nothing *)
AdvanceSong ==
    IF queue # << >> THEN Head(queue).id
    ELSE IF /\ current_playback_source.kind = "Album"
            /\ current_playback_source.current_index + 1
                 < Len(current_playback_source.album_songs)
    THEN current_playback_source.album_songs[current_playback_source.current_index + 2].id
    ELSE None

(* mutant: Next leaves a Queue or Search source in place when it stops *)
CmdNextKeepsSource ==
    /\ Recv("Next")
    /\ \E out \in Outcomes(AdvanceSong # None) :
         /\ last' = Did("CmdNext", out, AdvanceSong)
         /\ IF queue # << >>
            THEN play_next_in_queue(out, FALSE)
            ELSE IF current_playback_source.kind = "None"
            THEN UNCHANGED <<playVars, status_message_timeout>>
            ELSE IF current_playback_source.kind = "Album"
            THEN /\ play_next_in_album(current_playback_source.album_songs,
                                       current_playback_source.current_index, out)
                 /\ UNCHANGED queue
            ELSE /\ mpris' = [mpris EXCEPT !.playback_status = "Stopped"]
                 /\ UNCHANGED <<queue, current_playback_source, sink,
                                status_message_timeout>>

(* mutant: Next follows the album context before it looks at the queue *)
CmdNextAlbumFirst ==
    /\ Recv("Next")
    /\ \E out \in Outcomes(AdvanceSong # None) :
         /\ last' = Did("CmdNext", out, AdvanceSong)
         /\ IF current_playback_source.kind = "Album"
            THEN /\ play_next_in_album(current_playback_source.album_songs,
                                       current_playback_source.current_index,
                                       IF /\ current_playback_source.current_index + 1
                                               < Len(current_playback_source.album_songs)
                                          /\ out = "none"
                                       THEN "ok" ELSE out)
                 /\ UNCHANGED queue
            ELSE IF queue # << >>
            THEN play_next_in_queue(out, FALSE)
            ELSE IF current_playback_source.kind = "None"
            THEN UNCHANGED <<playVars, status_message_timeout>>
            ELSE /\ current_playback_source' = NoSource
                 /\ mpris' = [mpris EXCEPT !.playback_status = "Stopped"]
                 /\ UNCHANGED <<queue, sink, status_message_timeout>>

CmdNext ==
    /\ Recv("Next")
    /\ \E out \in Outcomes(AdvanceSong # None) :
         /\ last' = Did("CmdNext", out, AdvanceSong)
         /\ IF queue # << >>
            THEN play_next_in_queue(out, FALSE)
            ELSE IF current_playback_source.kind = "None"
            THEN UNCHANGED <<playVars, status_message_timeout>>
            ELSE IF current_playback_source.kind = "Album"
            THEN /\ play_next_in_album(current_playback_source.album_songs,
                                       current_playback_source.current_index, out)
                 /\ UNCHANGED queue
            ELSE /\ current_playback_source' = NoSource
                 /\ mpris' = [mpris EXCEPT !.playback_status = "Stopped"]
                 /\ UNCHANGED <<queue, sink, status_message_timeout>>

(* the song Previous hands to play_song, None when it starts nothing *)
PreviousSong ==
    CASE current_playback_source.kind = "None" -> None
      [] current_playback_source.kind = "Album" ->
            IF current_playback_source.current_index > 0
            THEN current_playback_source.album_songs[
                     current_playback_source.current_index].id
            ELSE current_playback_source.album_songs[1].id
      [] OTHER -> mpris.current_song.id

CmdPrevious ==
    /\ Recv("Previous")
    /\ \E out \in Outcomes(PreviousSong # None) :
         /\ last' = Did("CmdPrevious", out, PreviousSong)
         /\ UNCHANGED queue
         /\ IF current_playback_source.kind = "None"
            THEN UNCHANGED <<current_playback_source, sink, mpris, status_message_timeout>>
            ELSE IF current_playback_source.kind = "Album"
            THEN play_previous_in_album(current_playback_source.album_songs,
                                        current_playback_source.current_index, out)
            ELSE IF mpris.current_song # NoMprisSong
            THEN play_song(SongFromMpris(mpris.current_song), current_playback_source,
                           out, NoSource, FALSE)
            ELSE /\ current_playback_source' = NoSource
                 /\ UNCHANGED <<sink, mpris, status_message_timeout>>

(* `_ => {}`: Seek, SetPosition *)
CmdOther ==
    /\ Recv("Seek")
    /\ last' = Did("CmdOther", "none", None)
    /\ UNCHANGED <<playVars, status_message_timeout>>

(* try_recv() returns Err(Empty): the drain ends *)
DrainDone ==
    /\ pc = "drain"
    /\ mpris_command_rx = << >>
    /\ pc' = "finish"
    /\ last' = Did("DrainDone", "none", None)
    /\ UNCHANGED <<navVars, modeVars, status_message_timeout, playVars, mpris_command_rx, sideVars,
                   drill>>

(* "Check if audio finished playing" *)
FinishDetected ==
    /\ ~is_paused(sink) /\ is_finished(sink)
    /\ mpris.playback_status = "Playing"

FinishCheck ==
    /\ pc = "finish"
    /\ pc' = "input"
    /\ UNCHANGED <<navVars, modeVars, mpris_command_rx, sideVars, drill>>
    /\ IF ~FinishDetected
       THEN /\ last' = Did("FinishCheck", "skip", None)
            /\ UNCHANGED <<playVars, status_message_timeout>>
       ELSE \E out \in Outcomes(AdvanceSong # None) :
            /\ last' = Did("FinishCheck", out, AdvanceSong)
            /\ IF queue # << >>
               THEN play_next_in_queue(out, FALSE)
               ELSE IF current_playback_source.kind = "Album"
               THEN /\ play_next_in_album(current_playback_source.album_songs,
                                          current_playback_source.current_index, out)
                    /\ UNCHANGED queue
               ELSE /\ current_playback_source' = NoSource
                    /\ mpris' = [mpris EXCEPT !.playback_status = "Stopped"]
                    /\ UNCHANGED <<queue, sink, status_message_timeout>>


(* ---------------- loop top: draw + "Check message timeout" ---------------- *)
(* elapsed time is not modelled: a message on display may or may not have     *)
(* reached its timeout when the check runs                                    *)
MessageCheck ==
    /\ pc = "tick"
    /\ pc' = "drain"
    /\ \E expired \in IF status_message_timeout = NoTimeout THEN {FALSE} ELSE BOOLEAN :
         status_message_timeout' = IF expired THEN NoTimeout ELSE status_message_timeout
    /\ last' = Did("MessageCheck", "none", None)
    /\ UNCHANGED <<navVars, modeVars, playVars, mpris_command_rx, sideVars, drill>>

(* ---------------- tui.rs: handle_event / handle_key ---------------- *)
(* event::poll times out, or the event is not a key press *)
NoEvent ==
    /\ pc = "input"
    /\ pc' = "tick"
    /\ last' = Did("NoEvent", "none", None)
    /\ UNCHANGED <<navVars, modeVars, status_message_timeout, playVars, mpris_command_rx, sideVars,
                   drill>>

(* a key press reaches handle_key; every key but Quit ends the iteration *)
Key == pc = "input" /\ pc' = "tick" /\ UNCHANGED <<mpris_command_rx, sideVars>>

NormalKey == Key /\ ~help_open /\ ~in_search

KeyHelpClose ==
    /\ Key /\ help_open
    /\ help_open' = FALSE
    /\ last' = Did("HelpClose", "none", None)
    /\ UNCHANGED <<navVars, in_search, search_string, status_message_timeout, playVars, drill>>

(* a key no arm matches (`_ => {}`), or any other key under the help overlay *)
KeyIgnored ==
    /\ Key
    /\ last' = Did("Ignored", "none", None)
    /\ UNCHANGED <<navVars, modeVars, status_message_timeout, playVars, drill>>

KeySearchEsc ==
    /\ Key /\ ~help_open /\ in_search
    /\ in_search' = FALSE
    /\ search_string' = << >>
    /\ last' = Did("SearchCancel", "none", None)
    /\ UNCHANGED <<navVars, help_open, status_message_timeout, playVars, drill>>

KeySearchBackspace ==
    /\ Key /\ ~help_open /\ in_search
    /\ search_string' = IF search_string = << >> THEN << >>
                        ELSE SubSeq(search_string, 1, Len(search_string) - 1)
    /\ last' = Did("SearchBackspace", "none", None)
    /\ UNCHANGED <<navVars, in_search, help_open, status_message_timeout, playVars, drill>>

KeySearchChar(c) ==
    /\ Key /\ ~help_open /\ in_search
    /\ Len(search_string) < MaxQueryLen
    /\ search_string' = Append(search_string, c)
    /\ last' = Did("SearchChar", "none", None)
    /\ UNCHANGED <<navVars, in_search, help_open, status_message_timeout, playVars, drill>>

(* mutant: the hits are appended to the list of the previous search *)
KeySearchEnterAppends ==
    /\ Key /\ ~help_open /\ in_search
    /\ in_search' = FALSE
    /\ current_view' = "Search"
    /\ drill' = 0
    /\ \E out \in {"ok", "load_fail"} :
         /\ last' = Did("Search", out, None)
         /\ IF out = "ok"
            THEN /\ search_results' = search_results \o SearchItems(search_string)
                 /\ selected' = set_items(search_results \o SearchItems(search_string))
                 /\ UNCHANGED status_message_timeout
            ELSE /\ status_message_timeout' = ErrorTimeout
                 /\ UNCHANGED <<search_results, selected>>
    /\ UNCHANGED <<artists, albums, songs, current_artist_id, current_album_id,
                   help_open, search_string, playVars>>

(* KeyCode::Enter in search mode returns Action::Search; main runs the query *)
KeySearchEnter ==
    /\ Key /\ ~help_open /\ in_search
    /\ in_search' = FALSE
    /\ current_view' = "Search"
    /\ drill' = 0
    /\ \E out \in {"ok", "load_fail"} :
         /\ last' = Did("Search", out, None)
         /\ IF out = "ok"
            THEN /\ search_results' = SearchItems(search_string)
                 /\ selected' = set_items(SearchItems(search_string))
                 /\ UNCHANGED status_message_timeout
            ELSE /\ status_message_timeout' = ErrorTimeout
                 /\ UNCHANGED <<search_results, selected>>
    /\ UNCHANGED <<artists, albums, songs, current_artist_id, current_album_id,
                   help_open, search_string, playVars>>

KeyUp ==
    /\ NormalKey
    /\ selected' = app_previous
    /\ last' = Did("Up", "none", None)
    /\ UNCHANGED <<current_view, artists, albums, songs, search_results,
                   current_artist_id, current_album_id, modeVars, status_message_timeout,
                   playVars, drill>>

(* mutant: Down moves the cursor under the help overlay and in search mode *)
KeyDownInAnyMode ==
    /\ Key
    /\ selected' = app_next
    /\ last' = Did("Down", "none", None)
    /\ UNCHANGED <<current_view, artists, albums, songs, search_results,
                   current_artist_id, current_album_id, modeVars, status_message_timeout,
                   playVars, drill>>

KeyDown ==
    /\ NormalKey
    /\ selected' = app_next
    /\ last' = Did("Down", "none", None)
    /\ UNCHANGED <<current_view, artists, albums, songs, search_results,
                   current_artist_id, current_album_id, modeVars, status_message_timeout,
                   playVars, drill>>

(* mutant: leaving Songs keeps the album id *)
GoBackKeepsAlbumId ==
    /\ CASE current_view = "Albums" ->
              /\ current_view' = "Artists"
              /\ current_artist_id' = None
              /\ UNCHANGED <<current_album_id, search_results>>
         [] current_view = "Songs" ->
              /\ current_view' = "Albums"
              /\ UNCHANGED <<current_artist_id, current_album_id, search_results>>
         [] current_view = "Search" ->
              /\ current_view' = "Artists"
              /\ search_results' = << >>
              /\ UNCHANGED <<current_artist_id, current_album_id>>
         [] OTHER ->
              UNCHANGED <<current_view, current_artist_id, current_album_id,
                          search_results>>
    /\ drill' = CASE current_view = "Songs" /\ drill = 2 -> 3
                  [] current_view = "Albums" /\ drill = 3 -> 4
                  [] current_view = "Artists" -> drill
                  [] OTHER -> 0
    /\ UNCHANGED <<artists, albums, songs, selected, modeVars, status_message_timeout,
                   playVars>>

(* mutant: going back from Songs lands in Artists *)
GoBackToArtists ==
    /\ CASE current_view = "Albums" ->
              /\ current_view' = "Artists"
              /\ current_artist_id' = None
              /\ UNCHANGED <<current_album_id, search_results>>
         [] current_view = "Songs" ->
              /\ current_view' = "Artists"
              /\ current_album_id' = None
              /\ UNCHANGED <<current_artist_id, search_results>>
         [] current_view = "Search" ->
              /\ current_view' = "Artists"
              /\ search_results' = << >>
              /\ UNCHANGED <<current_artist_id, current_album_id>>
         [] OTHER ->
              UNCHANGED <<current_view, current_artist_id, current_album_id,
                          search_results>>
    /\ drill' = CASE current_view = "Songs" /\ drill = 2 -> 3
                  [] current_view = "Albums" /\ drill = 3 -> 4
                  [] current_view = "Artists" -> drill
                  [] OTHER -> 0
    /\ UNCHANGED <<artists, albums, songs, selected, modeVars, status_message_timeout, playVars>>

(* the "Go back" arms shared by q/Esc and Left/h *)
GoBack ==
    /\ CASE current_view = "Albums" ->
              /\ current_view' = "Artists"
              /\ current_artist_id' = None
              /\ UNCHANGED <<current_album_id, search_results>>
         [] current_view = "Songs" ->
              /\ current_view' = "Albums"
              /\ current_album_id' = None
              /\ UNCHANGED <<current_artist_id, search_results>>
         [] current_view = "Search" ->
              /\ current_view' = "Artists"
              /\ search_results' = << >>
              /\ UNCHANGED <<current_artist_id, current_album_id>>
         [] OTHER ->
              UNCHANGED <<current_view, current_artist_id, current_album_id,
                          search_results>>
    /\ drill' = CASE current_view = "Songs" /\ drill = 2 -> 3
                  [] current_view = "Albums" /\ drill = 3 -> 4
                  [] current_view = "Artists" -> drill
                  [] OTHER -> 0
    /\ UNCHANGED <<artists, albums, songs, selected, modeVars, status_message_timeout, playVars>>

(* q / Esc outside the Artists view *)
KeyBack ==
    /\ NormalKey
    /\ current_view # "Artists"
    /\ GoBack
    /\ last' = Did("Back", "none", None)

(* mutant: q / Esc quits from Artists even under the help overlay or in *)
(* search mode                                                          *)
KeyQuitInAnyMode ==
    /\ pc = "input"
    /\ current_view = "Artists"
    /\ pc' = "done"
    /\ last' = Did("Quit", "none", None)
    /\ UNCHANGED <<navVars, modeVars, status_message_timeout, playVars, mpris_command_rx, sideVars,
                   drill>>

(* q / Esc in the Artists view: Action::Quit, `break` *)
KeyQuit ==
    /\ pc = "input" /\ ~help_open /\ ~in_search
    /\ current_view = "Artists"
    /\ pc' = "done"
    /\ last' = Did("Quit", "none", None)
    /\ UNCHANGED <<navVars, modeVars, status_message_timeout, playVars, mpris_command_rx, sideVars,
                   drill>>

(* Left / h *)
KeyLeft ==
    /\ NormalKey
    /\ GoBack
    /\ last' = Did("Left", "none", None)

(* / or i *)
KeySearchOpen ==
    /\ NormalKey
    /\ in_search' = TRUE
    /\ search_string' = << >>
    /\ last' = Did("SearchOpen", "none", None)
    /\ UNCHANGED <<navVars, help_open, status_message_timeout, playVars, drill>>

KeyHelp ==
    /\ NormalKey
    /\ help_open' = TRUE
    /\ last' = Did("Help", "none", None)
    /\ UNCHANGED <<navVars, in_search, search_string, status_message_timeout, playVars, drill>>

(* r: remove the first queue entry *)
KeyRemove ==
    /\ NormalKey
    /\ last' = Did("Remove", "none", None)
    /\ IF queue # << >>
       THEN queue' = Tail(queue) /\ status_message_timeout' = NoticeTimeout
       ELSE UNCHANGED <<queue, status_message_timeout>>
    /\ UNCHANGED <<navVars, modeVars, current_playback_source, sink, mpris, drill>>

(* c: clear the queue *)
KeyClear ==
    /\ NormalKey
    /\ last' = Did("Clear", "none", None)
    /\ IF queue # << >>
       THEN queue' = << >> /\ status_message_timeout' = NoticeTimeout
       ELSE UNCHANGED <<queue, status_message_timeout>>
    /\ UNCHANGED <<navVars, modeVars, current_playback_source, sink, mpris, drill>>


(* ---------------- main.rs: Action handlers ---------------- *)
(* what handle_select does at the cursor: "load", "play" or "none" *)
SelectKind ==
    CASE selected = NoSel -> "none"
      [] current_view = "Artists" ->
            IF InRange(artists, selected) THEN "load" ELSE "none"
      [] current_view = "Albums" ->
            IF InRange(albums, selected) THEN "load" ELSE "none"
      [] current_view = "Songs" ->
            IF InRange(songs, selected) THEN "play" ELSE "none"
      [] current_view = "Search" ->
            IF ~InRange(search_results, selected) THEN "none"
            ELSE IF search_results[selected + 1].tag = "Album" THEN "load" ELSE "play"

(* the song handle_select hands to play_song *)
SelectSong ==
    IF current_view = "Songs" THEN songs[selected + 1]
    ELSE SongFromHit(search_results[selected + 1])

(* load_albums *)
load_albums(artist_id, out) ==
    IF out = "ok"
    THEN /\ albums' = ServerAlbums(artist_id)
         /\ selected' = set_items(ServerAlbums(artist_id))
         /\ UNCHANGED status_message_timeout
    ELSE /\ status_message_timeout' = ErrorTimeout
         /\ UNCHANGED <<albums, selected>>

(* load_songs *)
load_songs(album_id, out) ==
    IF out = "ok"
    THEN /\ songs' = LoadedSongs(album_id)
         /\ selected' = set_items(LoadedSongs(album_id))
         /\ UNCHANGED status_message_timeout
    ELSE /\ status_message_timeout' = ErrorTimeout
         /\ UNCHANGED <<songs, selected>>

(* mutant: Select in Songs records index 0 whatever the cursor is *)
handle_select_first_index(out) ==
    CASE SelectKind = "none" ->
            UNCHANGED <<navVars, status_message_timeout, playVars, drill>>
      [] SelectKind = "load" /\ current_view = "Artists" ->
            /\ current_artist_id' = artists[selected + 1]
            /\ current_view' = "Albums"
            /\ load_albums(artists[selected + 1], out)
            /\ drill' = IF /\ out = "ok"
                           /\ current_artist_id = None
                           /\ current_album_id = None
                        THEN 1 ELSE 0
            /\ UNCHANGED <<artists, songs, search_results, current_album_id, playVars>>
      [] SelectKind = "load" /\ current_view = "Albums" ->
            /\ current_album_id' = albums[selected + 1].id
            /\ current_view' = "Songs"
            /\ load_songs(albums[selected + 1].id, out)
            /\ drill' = IF out = "ok" /\ drill = 1 THEN 2 ELSE 0
            /\ UNCHANGED <<artists, albums, search_results, current_artist_id, playVars>>
      [] SelectKind = "load" /\ current_view = "Search" ->
            /\ current_artist_id' = search_results[selected + 1].artist_id
            /\ current_album_id' = search_results[selected + 1].id
            /\ current_view' = "Songs"
            /\ load_songs(search_results[selected + 1].id, out)
            /\ drill' = 0
            /\ UNCHANGED <<artists, albums, search_results, playVars>>
      [] SelectKind = "play" ->
            /\ play_song(SelectSong,
                         IF current_view = "Songs"
                         THEN SourceAlbum(songs, 0) ELSE SourceSearch,
                         out, current_playback_source, TRUE)
            /\ UNCHANGED <<navVars, queue, drill>>

(* handle_select, with the Err arm of Action::Select *)
handle_select(out) ==
    CASE SelectKind = "none" ->
            UNCHANGED <<navVars, status_message_timeout, playVars, drill>>
      [] SelectKind = "load" /\ current_view = "Artists" ->
            /\ current_artist_id' = artists[selected + 1]
            /\ current_view' = "Albums"
            /\ load_albums(artists[selected + 1], out)
            /\ drill' = IF /\ out = "ok"
                           /\ current_artist_id = None
                           /\ current_album_id = None
                        THEN 1 ELSE 0
            /\ UNCHANGED <<artists, songs, search_results, current_album_id, playVars>>
      [] SelectKind = "load" /\ current_view = "Albums" ->
            /\ current_album_id' = albums[selected + 1].id
            /\ current_view' = "Songs"
            /\ load_songs(albums[selected + 1].id, out)
            /\ drill' = IF out = "ok" /\ drill = 1 THEN 2 ELSE 0
            /\ UNCHANGED <<artists, albums, search_results, current_artist_id, playVars>>
      [] SelectKind = "load" /\ current_view = "Search" ->
            /\ current_artist_id' = search_results[selected + 1].artist_id
            /\ current_album_id' = search_results[selected + 1].id
            /\ current_view' = "Songs"
            /\ load_songs(search_results[selected + 1].id, out)
            /\ drill' = 0
            /\ UNCHANGED <<artists, albums, search_results, playVars>>
      [] SelectKind = "play" ->
            /\ play_song(SelectSong,
                         IF current_view = "Songs"
                         THEN SourceAlbum(songs, selected) ELSE SourceSearch,
                         out, current_playback_source, TRUE)
            /\ UNCHANGED <<navVars, queue, drill>>

(* Right / l / Enter *)
KeySelect ==
    /\ NormalKey
    /\ \E out \in CASE SelectKind = "load" -> LoadOutcomes
                    [] SelectKind = "play" -> PlayOutcomes
                    [] OTHER -> {"none"} :
         /\ handle_select(out)
         /\ last' = Did("Select", out,
                        IF SelectKind = "play" THEN SelectSong.id ELSE None)
    /\ UNCHANGED modeVars

(* the track `a` would push, or nothing *)
CanAdd ==
    /\ selected # NoSel
    /\ \/ current_view = "Songs" /\ InRange(songs, selected)
       \/ /\ current_view = "Search" /\ InRange(search_results, selected)
          /\ search_results[selected + 1].tag = "Song"

(* mutant: the track is pushed at the front of the queue *)
KeyAddAtFront ==
    /\ NormalKey
    /\ CanAdd => Len(queue) < MaxQueue
    /\ last' = Did("AddToQueue", "none", None)
    /\ IF CanAdd
       THEN /\ queue' = <<SelectSong>> \o queue
            /\ status_message_timeout' = NoticeTimeout
       ELSE UNCHANGED <<queue, status_message_timeout>>
    /\ UNCHANGED <<navVars, modeVars, current_playback_source, sink, mpris, drill>>

(* a: Action::AddToQueue *)
KeyAdd ==
    /\ NormalKey
    /\ CanAdd => Len(queue) < MaxQueue
    /\ last' = Did("AddToQueue", "none", None)
    /\ IF CanAdd
       THEN /\ queue' = Append(queue, SelectSong)
            /\ status_message_timeout' = NoticeTimeout
       ELSE UNCHANGED <<queue, status_message_timeout>>
    /\ UNCHANGED <<navVars, modeVars, current_playback_source, sink, mpris, drill>>

(* n: Action::PlayNext *)
KeyPlayNext ==
    /\ NormalKey
    /\ \E out \in Outcomes(queue # << >>) :
         /\ last' = Did("PlayNext", out, IF queue # << >> THEN Head(queue).id ELSE None)
         /\ play_next_in_queue(out, TRUE)
    /\ UNCHANGED <<navVars, modeVars, drill>>

(* p: Action::RestartQueue *)
KeyRestart ==
    /\ NormalKey
    /\ UNCHANGED <<navVars, modeVars, drill>>
    /\ IF queue = << >>
       THEN /\ last' = Did("RestartQueue", "none", None)
            /\ UNCHANGED <<playVars, status_message_timeout>>
       ELSE \E out \in PlayOutcomes :
            /\ last' = Did("RestartQueue", out, Head(queue).id)
            /\ queue' = Tail(queue)
            (* audio_player.stop() runs before play_song: a failed fetch leaves *)
            (* the sink stopped                                                  *)
            /\ sink' = IF out = "ok" THEN LoadedSink ELSE StoppedSink
            /\ mpris' = IF out = "ok"
                        THEN [playback_status |-> "Playing",
                              current_song |-> MprisSong(Head(queue))]
                        ELSE mpris
            /\ current_playback_source' =
                   IF out = "ok" THEN SourceQueue ELSE current_playback_source
            /\ status_message_timeout' = IF out = "ok" THEN PlayingTimeout ELSE ErrorTimeout

(* space: Action::TogglePause *)
KeySpace ==
    /\ NormalKey
    /\ last' = Did("TogglePause", "none", None)
    /\ sink' = toggle_pause(sink)
    /\ IF is_paused(sink')
       THEN /\ status_message_timeout' = NoticeTimeout
            /\ mpris' = [mpris EXCEPT !.playback_status = "Paused"]
       ELSE /\ status_message_timeout' = NoticeTimeout
            /\ mpris' = [mpris EXCEPT !.playback_status = "Playing"]
    /\ UNCHANGED <<navVars, modeVars, queue, current_playback_source, drill>>

(* ---------------- the session loop ---------------- *)
(* steps of the loop that every view of the program shares *)
LoopStep ==
    \/ MessageCheck
    \/ DrainDone
    \/ FinishCheck
    \/ NoEvent

(* navigation, search mode and help overlay, from the state main() builds; *)
(* the bus stays silent and the track in the sink does not end             *)
NextNav ==
    \/ LoopStep
    \/ KeyIgnored
    \/ KeyHelp
    \/ KeyHelpClose
    \/ KeySearchOpen
    \/ KeySearchEsc
    \/ KeySearchBackspace
    \/ \E c \in QueryChars : KeySearchChar(c)
    \/ KeySearchEnter
    \/ KeyUp
    \/ KeyDown
    \/ KeySelect
    \/ KeyBack
    \/ KeyLeft
    \/ KeyQuit

SpecNav == Init /\ [][NextNav]_vars

(* Two states SpecNav reaches with nothing played yet: the Songs view of     *)
(* album b1 after Artists -> Albums -> Songs, and the Search view after      *)
(* searching "x" from the Artists view.                                      *)
SongsContext ==
    /\ current_view = "Songs"
    /\ artists = ServerArtists
    /\ albums = ServerAlbums("a1")
    /\ songs = LoadedSongs("b1")
    /\ search_results = << >>
    /\ selected = 0
    /\ current_artist_id = "a1"
    /\ current_album_id = "b1"
    /\ search_string = << >>

SearchContext ==
    /\ current_view = "Search"
    /\ artists = ServerArtists
    /\ albums = << >>
    /\ songs = << >>
    /\ search_results = SearchItems(<<"x">>)
    /\ selected = 0
    /\ current_artist_id = None
    /\ current_album_id = None
    /\ search_string = <<"x">>

NothingPlayed ==
    /\ in_search = FALSE
    /\ help_open = FALSE
    /\ queue = << >>
    /\ current_playback_source = NoSource
    /\ sink = [empty |-> TRUE, paused |-> FALSE]
    /\ mpris = [playback_status |-> "Stopped", current_song |-> NoMprisSong]
    /\ mpris_command_rx = << >>
    /\ SideInit
    /\ status_message_timeout = NoTimeout

InitPlay ==
    /\ SongsContext \/ SearchContext
    /\ NothingPlayed
    /\ pc = "tick"
    /\ drill = 0
    /\ last = [op |-> "Init", out |-> "ok", song |-> None, before |-> NoSource]

(* playback, queue and remote control in those two views *)
NextPlay ==
    \/ LoopStep
    \/ SinkTrackEnds
    \/ CmdPlay
    \/ CmdPause
    \/ CmdPlayPause
    \/ CmdStop
    \/ CmdNext
    \/ CmdPrevious
    \/ CmdOther
    \/ KeyUp
    \/ KeyDown
    \/ KeySelect
    \/ KeyAdd
    \/ KeyPlayNext
    \/ KeyRemove
    \/ KeyClear
    \/ KeyRestart
    \/ KeySpace

SpecPlay == InitPlay /\ [][NextPlay]_vars

(* SpecNav reaches both starting views of SpecPlay (checked as the negated *)
(* invariants ~SongsContextReached and ~SearchContextReached)              *)
SongsContextReached == SongsContext /\ NothingPlayed /\ pc = "tick"
SearchContextReached == SearchContext /\ NothingPlayed /\ pc = "tick"


(* The Search view of "x" with the cursor moved down to the song hit, which *)
(* SpecNav reaches as well                                                  *)
SongHitContext ==
    /\ current_view = "Search"
    /\ artists = ServerArtists
    /\ albums = << >>
    /\ songs = << >>
    /\ search_results = SearchItems(<<"x">>)
    /\ selected = 1
    /\ current_artist_id = None
    /\ current_album_id = None
    /\ search_string = <<"x">>

SongHitContextReached == SongHitContext /\ NothingPlayed /\ pc = "tick"

InitView ==
    \/ Init
    \/ /\ SongHitContext
       /\ NothingPlayed
       /\ pc = "tick"
       /\ drill = 0
       /\ last = [op |-> "Init", out |-> "ok", song |-> None, before |-> NoSource]

(* every key that can change the view or end the session, the search and   *)
(* help modes, the remote control and the track ending; the cursor stays    *)
(* where the last load or search put it                                     *)
NextView ==
    \/ LoopStep
    \/ KeyHelp
    \/ KeyHelpClose
    \/ KeySearchEsc
    \/ KeySearchOpen
    \/ \E c \in QueryChars : KeySearchChar(c)
    \/ KeySearchEnter
    \/ KeySelect
    \/ KeyBack
    \/ KeyLeft
    \/ KeyQuit
    \/ SinkTrackEnds
    \/ CmdPlay
    \/ CmdPause
    \/ CmdPlayPause
    \/ CmdStop
    \/ CmdNext
    \/ CmdPrevious
    \/ CmdOther

SpecView == InitView /\ [][NextView]_vars

(* a PlayerInterface method runs on the bus thread and sends its command; *)
(* the loop may be anywhere in its iteration                              *)
BusSend(cmd) ==
    /\ pc # "done"
    /\ cmd \in MprisCommand
    /\ Len(mpris_command_rx) < MaxPending
    /\ mpris_command_rx' = Append(mpris_command_rx, cmd)
    /\ UNCHANGED <<navVars, modeVars, status_message_timeout, playVars, sideVars, pc, last,
                   drill>>

(* the drain with commands piling up in the channel while the loop is busy *)
NextDrain ==
    \/ LoopStep
    \/ \E cmd \in MprisCommand : BusSend(cmd)
    \/ SinkTrackEnds
    \/ CmdPlay
    \/ CmdPause
    \/ CmdPlayPause
    \/ CmdStop
    \/ CmdNext
    \/ CmdPrevious
    \/ CmdOther
    \/ KeySelect

SpecDrain == InitPlay /\ [][NextDrain]_vars

(* ---------------- the bus-state lock: Arc<RwLock<MprisState>> ---------------- *)
(* The session loop and the bus thread (PlayerInterface property readers) share *)
(* the lock. tokio's RwLock queues its requests and serves them in order: a     *)
(* read is granted when no writer holds the lock, a write when nobody holds it. *)
Tasks == {"loop", "bus"}

Holds(task) == task \in mpris_state_lock.readers \/ mpris_state_lock.writer = task

Awaits(task, mode) ==
    \E i \in 1..Len(mpris_state_lock.waiters) :
        mpris_state_lock.waiters[i] = [task |-> task, mode |-> mode]

Waits(task) == Awaits(task, "read") \/ Awaits(task, "write")

(* state.read().await / state.write().await up to the await point *)
lock_request(task, mode) ==
    [mpris_state_lock EXCEPT !.waiters = Append(@, [task |-> task, mode |-> mode])]

(* the guard is dropped *)
lock_release(task) ==
    [mpris_state_lock EXCEPT !.readers = @ \ {task},
                             !.writer = IF @ = task THEN None ELSE @]

(* the oldest request is served *)
LockGrant ==
    /\ mpris_state_lock.waiters # << >>
    /\ LET w == Head(mpris_state_lock.waiters) IN
       /\ mpris_state_lock.writer = None
       /\ w.mode = "write" => mpris_state_lock.readers = {}
       /\ mpris_state_lock' =
             [readers |-> IF w.mode = "read"
                          THEN mpris_state_lock.readers \cup {w.task}
                          ELSE mpris_state_lock.readers,
              writer |-> IF w.mode = "write" THEN w.task ELSE None,
              waiters |-> Tail(mpris_state_lock.waiters)]
    /\ UNCHANGED <<navVars, modeVars, status_message_timeout, playVars, mpris_command_rx,
                   loop_steps, notLock, pc, last, drill>>

(* a bus client reads PlaybackStatus, Metadata or Volume: `self.state.read().await` *)
PropertyRead ==
    /\ pc # "done"
    /\ ~Holds("bus") /\ ~Waits("bus")
    /\ mpris_state_lock' = lock_request("bus", "read")
    /\ UNCHANGED <<navVars, modeVars, status_message_timeout, playVars, mpris_command_rx,
                   loop_steps, notLock, pc, last, drill>>

(* the reader returns its value and its guard goes out of scope *)
PropertyReadDone ==
    /\ "bus" \in mpris_state_lock.readers
    /\ mpris_state_lock' = lock_release("bus")
    /\ UNCHANGED <<navVars, modeVars, status_message_timeout, playVars, mpris_command_rx,
                   loop_steps, notLock, pc, last, drill>>

(* What a handler of the loop does with the lock and the network, in order:   *)
(* "read"/"write" request a guard and await it, "drop"/"unwrite" release it,  *)
(* "net" is an await on the media server. MprisServer::update_* take the      *)
(* write guard, assign and return                                             *)
update_steps == <<"write", "unwrite">>

(* play_song: reqwest::get + bytes, play_bytes, update_current_song,          *)
(* update_playback_status                                                     *)
play_song_steps(out) ==
    <<"net">> \o (IF out = "ok" THEN update_steps \o update_steps ELSE << >>)

(* update_current_song(None, None) + update_playback_status(Stopped) *)
report_stopped_steps == update_steps \o update_steps

(* mutant: the Previous handler keeps its read guard while play_song runs *)
PreviousStepsGuardKept(out) ==
    CASE current_playback_source.kind = "None" -> << >>
      [] current_playback_source.kind = "Album" -> play_song_steps(out)
      [] OTHER ->
            IF mpris.current_song # NoMprisSong
            THEN <<"read">> \o play_song_steps(out) \o <<"drop">>
            ELSE <<"read", "drop">>

(* MprisCommand::Previous: the `_` arm reads the bus state and drops the      *)
(* guard before play_song; with no reported track the guard lives to the end  *)
(* of the arm                                                                 *)
PreviousSteps(out) ==
    CASE current_playback_source.kind = "None" -> << >>
      [] current_playback_source.kind = "Album" -> play_song_steps(out)
      [] OTHER ->
            IF mpris.current_song # NoMprisSong
            THEN <<"read", "drop">> \o play_song_steps(out)
            ELSE <<"read", "drop">>

(* "Check if audio finished playing": the guard is dropped before the advance, *)
(* or at the end of the block when the bus state is not Playing                *)
FinishSteps(out) ==
    IF ~(~is_paused(sink) /\ is_finished(sink)) THEN << >>
    ELSE IF mpris.playback_status # "Playing" THEN <<"read", "drop">>
    ELSE <<"read", "drop">> \o
         (IF queue # << >> THEN play_song_steps(out)
          ELSE IF current_playback_source.kind = "Album"
          THEN (IF out = "none" THEN report_stopped_steps ELSE play_song_steps(out))
          ELSE update_steps)

(* the loop enters a handler: it runs `steps` and resumes at `resume` *)
Enter(steps, resume) ==
    /\ pc' = "handler"
    /\ loop_steps' = Append(steps, resume)
    /\ UNCHANGED <<mpris_state_lock, notLock>>

(* the loop runs the next step of the handler it is in; at an await on the *)
(* lock it stays until the request is served                               *)
LoopLockStep ==
    /\ pc = "handler"
    /\ ~Waits("loop")
    /\ loop_steps' = Tail(loop_steps)
    /\ CASE Head(loop_steps) \in {"read", "write"} ->
                /\ mpris_state_lock' = lock_request("loop", Head(loop_steps))
                /\ UNCHANGED pc
         [] Head(loop_steps) \in {"drop", "unwrite"} ->
                /\ mpris_state_lock' = lock_release("loop")
                /\ UNCHANGED pc
         [] Head(loop_steps) = "net" ->
                UNCHANGED <<mpris_state_lock, pc>>
         [] OTHER ->
                /\ pc' = Head(loop_steps)
                /\ UNCHANGED mpris_state_lock
    /\ UNCHANGED <<navVars, modeVars, status_message_timeout, playVars, mpris_command_rx,
                   notLock, last, drill>>

(* try_recv() yields the oldest pending command *)
LockRecv(cmd) ==
    /\ pc = "drain"
    /\ mpris_command_rx # << >>
    /\ cmd = Head(mpris_command_rx)
    /\ mpris_command_rx' = Tail(mpris_command_rx)
    /\ UNCHANGED <<navVars, modeVars, drill>>

(* MprisCommand::Previous, step by step *)
LockPrevious ==
    /\ LockRecv("Previous")
    /\ \E out \in Outcomes(PreviousSong # None) :
         /\ last' = Did("CmdPrevious", out, PreviousSong)
         /\ Enter(PreviousSteps(out), "drain")
         /\ UNCHANGED queue
         /\ IF current_playback_source.kind = "None"
            THEN UNCHANGED <<current_playback_source, sink, mpris, status_message_timeout>>
            ELSE IF current_playback_source.kind = "Album"
            THEN play_previous_in_album(current_playback_source.album_songs,
                                        current_playback_source.current_index, out)
            ELSE IF mpris.current_song # NoMprisSong
            THEN play_song(SongFromMpris(mpris.current_song), current_playback_source,
                           out, NoSource, FALSE)
            ELSE /\ current_playback_source' = NoSource
                 /\ UNCHANGED <<sink, mpris, status_message_timeout>>

(* the body of the finish check (main.rs:459-482), for the specifications *)
(* that run it with the lock or the clock in view                          *)
finish_check ==
    IF ~FinishDetected
    THEN /\ last' = Did("FinishCheck", "skip", None)
         /\ UNCHANGED <<playVars, status_message_timeout>>
    ELSE \E out \in Outcomes(AdvanceSong # None) :
         /\ last' = Did("FinishCheck", out, AdvanceSong)
         /\ IF queue # << >>
            THEN play_next_in_queue(out, FALSE)
            ELSE IF current_playback_source.kind = "Album"
            THEN /\ play_next_in_album(current_playback_source.album_songs,
                                       current_playback_source.current_index, out)
                 /\ UNCHANGED queue
            ELSE /\ current_playback_source' = NoSource
                 /\ mpris' = [mpris EXCEPT !.playback_status = "Stopped"]
                 /\ UNCHANGED <<queue, sink, status_message_timeout>>

(* the finish check, step by step *)
LockFinishCheck ==
    /\ pc = "finish"
    /\ finish_check
    /\ Enter(FinishSteps(IF last'.out = "skip" THEN "none" ELSE last'.out), "input")
    /\ UNCHANGED <<navVars, modeVars, mpris_command_rx, drill>>

(* Action::Select, step by step: a load awaits the server, a play is play_song *)
LockKeySelect ==
    /\ pc = "input" /\ ~help_open /\ ~in_search
    /\ \E out \in CASE SelectKind = "load" -> LoadOutcomes
                    [] SelectKind = "play" -> PlayOutcomes
                    [] OTHER -> {"none"} :
         /\ handle_select(out)
         /\ last' = Did("Select", out,
                        IF SelectKind = "play" THEN SelectSong.id ELSE None)
         /\ Enter(CASE SelectKind = "load" -> <<"net">>
                    [] SelectKind = "play" -> play_song_steps(out)
                    [] OTHER -> << >>, "tick")
    /\ UNCHANGED <<modeVars, mpris_command_rx>>

(* Action::PlayNext, step by step *)
LockKeyPlayNext ==
    /\ pc = "input" /\ ~help_open /\ ~in_search
    /\ \E out \in Outcomes(queue # << >>) :
         /\ last' = Did("PlayNext", out, IF queue # << >> THEN Head(queue).id ELSE None)
         /\ play_next_in_queue(out, TRUE)
         /\ Enter(IF queue # << >> THEN play_song_steps(out) ELSE report_stopped_steps,
                  "tick")
    /\ UNCHANGED <<navVars, modeVars, mpris_command_rx, drill>>

NextLock ==
    \/ MessageCheck
    \/ DrainDone
    \/ NoEvent
    \/ LockFinishCheck
    \/ LockPrevious
    \/ LockKeySelect
    \/ LockKeyPlayNext
    \/ KeyDown
    \/ LoopLockStep
    \/ LockGrant
    \/ PropertyRead
    \/ PropertyReadDone
    \/ BusSend("Previous")
    \/ SinkTrackEnds

(* the loop keeps running its handler, the lock serves its queue, and a *)
(* property reader returns                                              *)
SpecLock ==
    /\ InitPlay
    /\ [][NextLock]_vars
    /\ WF_vars(LoopLockStep)
    /\ WF_vars(LockGrant)
    /\ WF_vars(PropertyReadDone)

(* ---------------- the message clock (main.rs:366-379) ---------------- *)
(* Time is counted in steps of TickMs milliseconds; the timeouts passed to *)
(* show_message are multiples of it                                        *)
TickMs == 500

(* Instant::elapsed().as_millis() *)
elapsed(since) == (now - since) * TickMs

(* time passes, wherever the loop is *)
ClockTick ==
    /\ pc # "done"
    /\ now < MaxTime
    /\ now' = now + 1
    /\ UNCHANGED <<navVars, modeVars, status_message_timeout, playVars, mpris_command_rx,
                   last_message_check, message_set_at, notClock, pc, last, drill>>

(* mutant: the expiry check restarts its clock on every iteration *)
ClockMessageCheckRestarts ==
    /\ pc = "tick"
    /\ pc' = "drain"
    /\ last_message_check' = now
    /\ status_message_timeout' =
          IF /\ status_message_timeout # NoTimeout
             /\ elapsed(last_message_check) >= status_message_timeout
          THEN NoTimeout ELSE status_message_timeout
    /\ last' = Did("MessageCheck",
                   IF status_message_timeout' # status_message_timeout
                   THEN "expired" ELSE "none", None)
    /\ UNCHANGED <<navVars, modeVars, playVars, mpris_command_rx, now, message_set_at,
                   notClock, drill>>

(* tui.draw, then "Check message timeout" as the code computes it *)
ClockMessageCheck ==
    /\ pc = "tick"
    /\ pc' = "drain"
    /\ IF status_message_timeout # NoTimeout
       THEN IF elapsed(last_message_check) >= status_message_timeout
            THEN /\ status_message_timeout' = NoTimeout
                 /\ last_message_check' = now
            ELSE UNCHANGED <<status_message_timeout, last_message_check>>
       ELSE /\ last_message_check' = now
            /\ UNCHANGED status_message_timeout
    /\ last' = Did("MessageCheck",
                   IF status_message_timeout' # status_message_timeout
                   THEN "expired" ELSE "none", None)
    /\ UNCHANGED <<navVars, modeVars, playVars, mpris_command_rx, now, message_set_at,
                   notClock, drill>>

(* a handler awaits the media server for d ticks *)
Awaited(d) ==
    /\ d \in 0..MaxAwait
    /\ now + d <= MaxTime
    /\ now' = now + d

(* the finish check with the clock: play_song shows "Playing: .." before it *)
(* fetches, and the Err is dropped (`let _ =`)                              *)
ClockFinishCheck ==
    /\ pc = "finish"
    /\ pc' = "input"
    /\ finish_check
    /\ \E d \in IF last'.song # None THEN 0..MaxAwait ELSE {0} : Awaited(d)
    /\ message_set_at' = IF last'.song # None THEN now ELSE message_set_at
    /\ UNCHANGED <<navVars, modeVars, mpris_command_rx, last_message_check, notClock, drill>>

(* Action::Select with the clock: play_song shows "Playing: .." before it   *)
(* fetches; an Err is shown by the caller after the await (main.rs:487-491) *)
ClockKeySelect ==
    /\ pc = "input" /\ ~help_open /\ ~in_search
    /\ pc' = "tick"
    /\ \E out \in CASE SelectKind = "load" -> LoadOutcomes
                    [] SelectKind = "play" -> PlayOutcomes
                    [] OTHER -> {"none"} :
         /\ handle_select(out)
         /\ last' = Did("Select", out,
                        IF SelectKind = "play" THEN SelectSong.id ELSE None)
         /\ \E d \in IF SelectKind = "none" THEN {0} ELSE 0..MaxAwait :
              /\ Awaited(d)
              /\ message_set_at' = CASE out \in {"fetch_fail", "decode_fail", "load_fail"} ->
                                           now + d
                                     [] SelectKind = "play" -> now
                                     [] OTHER -> message_set_at
    /\ UNCHANGED <<modeVars, mpris_command_rx, last_message_check, notClock>>

(* Action::TogglePause with the clock: "Paused" / "Resumed" *)
ClockKeySpace ==
    /\ pc = "input" /\ ~help_open /\ ~in_search
    /\ pc' = "tick"
    /\ last' = Did("TogglePause", "none", None)
    /\ sink' = toggle_pause(sink)
    /\ status_message_timeout' = NoticeTimeout
    /\ message_set_at' = now
    /\ mpris' = [mpris EXCEPT !.playback_status =
                                 IF is_paused(sink') THEN "Paused" ELSE "Playing"]
    /\ UNCHANGED <<navVars, modeVars, queue, current_playback_source, mpris_command_rx,
                   now, last_message_check, notClock, drill>>

NextClock ==
    \/ ClockTick
    \/ ClockMessageCheck
    \/ DrainDone
    \/ ClockFinishCheck
    \/ NoEvent
    \/ ClockKeySelect
    \/ ClockKeySpace

SpecClock == Init /\ [][NextClock]_vars

(* ---------------- volume (main.rs:450-454, mpris.rs:208-217) ---------------- *)
(* Volumes are f64 in the source and tenths here: 10 is 1.0. NaN stands for the *)
(* f64 NaN, which a bus client can send like any other double                   *)
NaN == 0 - 999

(* what a bus client may write to the Volume property *)
VolumeInputs == {0 - 5, 0, 5, 10, 15, NaN}

(* f64 comparison: false whenever an operand is NaN *)
f64_lt(a, b) == a # NaN /\ b # NaN /\ a < b

(* f64::clamp(min, max): `if x < min { x = min } if x > max { x = max } x` *)
f64_clamp(v, min, max) ==
    IF f64_lt(v, min) THEN min
    ELSE IF f64_lt(max, v) THEN max
    ELSE v

(* AudioPlayer::set_volume: hands the value to the sink *)
set_volume(v) == v

(* PlayerInterface::set_volume: the Volume property setter sends the value as *)
(* it came                                                                    *)
BusSetVolume(v) ==
    /\ pc # "done"
    /\ v \in VolumeInputs
    /\ Len(mpris_command_rx) < MaxPending
    /\ mpris_command_rx' = Append(mpris_command_rx, <<"SetVolume", v>>)
    /\ UNCHANGED <<navVars, modeVars, status_message_timeout, playVars, sideVars, pc, last,
                   drill>>

(* MprisCommand::SetVolume(volume) *)
CmdSetVolume ==
    /\ pc = "drain"
    /\ mpris_command_rx # << >>
    /\ mpris_command_rx' = Tail(mpris_command_rx)
    /\ LET clamped == f64_clamp(Head(mpris_command_rx)[2], 0, 10) IN
       /\ sink_volume' = set_volume(clamped)
       /\ volume' = clamped
    /\ last' = Did("CmdSetVolume", "none", None)
    /\ UNCHANGED <<navVars, modeVars, status_message_timeout, playVars, notVolume, pc, drill>>

(* Action::Select with the sink volume in view: play_bytes sets the sink *)
(* volume to 1.0 before it decodes (audio.rs:29)                         *)
VolumeKeySelect ==
    /\ pc = "input" /\ ~help_open /\ ~in_search
    /\ pc' = "tick"
    /\ \E out \in CASE SelectKind = "load" -> LoadOutcomes
                    [] SelectKind = "play" -> PlayOutcomes
                    [] OTHER -> {"none"} :
         /\ handle_select(out)
         /\ last' = Did("Select", out,
                        IF SelectKind = "play" THEN SelectSong.id ELSE None)
         /\ sink_volume' = IF SelectKind = "play" /\ out # "fetch_fail"
                           THEN 10 ELSE sink_volume
    /\ UNCHANGED <<modeVars, mpris_command_rx, volume, notVolume>>

NextVolume ==
    \/ LoopStep
    \/ \E v \in VolumeInputs : BusSetVolume(v)
    \/ CmdSetVolume
    \/ VolumeKeySelect
    \/ KeyDown
    \/ SinkTrackEnds

SpecVolume == InitPlay /\ [][NextVolume]_vars

(* ---------------- the Search list on screen ---------------- *)
(* render_list: one ListItem per entry of the list of the current view; a  *)
(* row keeps the tag render_list prints and the id of its entry, which     *)
(* stands for the name / title and artist text                             *)
render_list ==
    CASE current_view = "Artists" ->
            [i \in 1..Len(artists) |-> [tag |-> "", id |-> artists[i]]]
      [] current_view = "Albums" ->
            [i \in 1..Len(albums) |-> [tag |-> "", id |-> albums[i].id]]
      [] current_view = "Songs" ->
            [i \in 1..Len(songs) |-> [tag |-> "", id |-> songs[i].id]]
      [] current_view = "Search" ->
            [i \in 1..Len(search_results) |->
                [tag |-> IF search_results[i].tag = "Album" THEN "[A]" ELSE "[S]",
                 id |-> search_results[i].id]]

(* search mode and the search itself, from the state main() builds *)
NextSearch ==
    \/ LoopStep
    \/ KeySearchOpen
    \/ KeySearchEsc
    \/ KeySearchBackspace
    \/ \E c \in SearchChars : KeySearchChar(c)
    \/ KeySearchEnter
    \/ KeyDown

SpecSearch == Init /\ [][NextSearch]_vars

(* ======================= properties ======================= *)
(* an advance: the remote Next command, or the finish check finding the *)
(* track ended while the bus-visible status is Playing                  *)
AdvanceStep ==
    \/ last'.op = "CmdNext"
    \/ last'.op = "FinishCheck" /\ FinishDetected

SourceIndex == current_playback_source.current_index
SourceSongs == current_playback_source.album_songs

(* C1: an advance (remote Next, or a natural finish while Playing) with a    *)
(* non-empty queue removes the head of the queue and hands it to play_song   *)
(* whatever the PlaybackSource is; when the play succeeds the source is      *)
(* Queue, the bus shows that track as Playing, and the queue is its old tail *)
C1_QueuePriorityOnAdvance ==
    [][ (AdvanceStep /\ queue # << >>) =>
          /\ queue' = Tail(queue)
          /\ last'.song = Head(queue).id
          /\ last'.out \in PlayOutcomes
          /\ last'.out = "ok" =>
                /\ current_playback_source' = SourceQueue
                /\ mpris'.current_song = MprisSong(Head(queue))
                /\ mpris'.playback_status = "Playing" ]_vars

(* C1 witness: a natural finish under an album context played the queue head *)
C1_Witness ==
    /\ last.op = "FinishCheck" /\ last.out = "ok"
    /\ last.before.kind = "Album"
    /\ current_playback_source = SourceQueue
    /\ mpris.current_song.id = last.song

(* every step that runs play_next_in_queue on a non-empty queue *)
DequeueStep ==
    /\ queue # << >>
    /\ \/ last'.op \in {"PlayNext", "RestartQueue"}
       \/ last'.op = "CmdPlay" /\ ~is_paused(sink)
       \/ AdvanceStep

(* C2: AddToQueue appends at the tail (duplicates included) and every        *)
(* play-next-in-queue step removes index 0 and plays it, so tracks leave the *)
(* queue in the order they were added                                        *)
C2_QueueFifo ==
    [][ /\ (last'.op = "AddToQueue" /\ CanAdd) => queue' = Append(queue, SelectSong)
        /\ DequeueStep =>
              /\ queue' = Tail(queue)
              /\ last'.song = Head(queue).id
              /\ last'.out = "ok" => mpris'.current_song = MprisSong(Head(queue)) ]_vars

(* C2 witness: the head was played and its duplicate, added later, is still  *)
(* queued behind it                                                          *)
C2_Witness ==
    /\ last.op = "PlayNext" /\ last.out = "ok"
    /\ queue # << >>
    /\ mpris.current_song = MprisSong(queue[1])

(* C3: with an empty queue and source Album{list, i}, i+1 < len(list), an    *)
(* advance hands list[i+1] to play_song; when the play succeeds the source   *)
(* is Album{list, i+1} with the same list and the bus shows list[i+1]        *)
C3_AlbumAdvance ==
    [][ ( /\ AdvanceStep
          /\ queue = << >>
          /\ current_playback_source.kind = "Album"
          /\ SourceIndex + 1 < Len(SourceSongs) ) =>
          /\ last'.song = SourceSongs[SourceIndex + 2].id
          /\ queue' = << >>
          /\ last'.out = "ok" =>
                /\ current_playback_source' = SourceAlbum(SourceSongs, SourceIndex + 1)
                /\ mpris'.current_song = MprisSong(SourceSongs[SourceIndex + 2])
                /\ mpris'.playback_status = "Playing" ]_vars

(* C3 witness: a natural finish moved an album context from index 0 to 1 *)
C3_Witness ==
    /\ last.op = "FinishCheck" /\ last.out = "ok"
    /\ last.before.kind = "Album" /\ last.before.current_index = 0
    /\ current_playback_source = SourceAlbum(last.before.album_songs, 1)

(* C4: Next with an empty queue at the last index of an album context starts *)
(* no track, leaves the source absent, and the bus shows Stopped, no track   *)
C4_NextAtAlbumEnd ==
    [][ ( /\ last'.op = "CmdNext"
          /\ queue = << >>
          /\ current_playback_source.kind = "Album"
          /\ SourceIndex = Len(SourceSongs) - 1 ) =>
          /\ last'.song = None /\ last'.out = "none"
          /\ sink' = sink
          /\ queue' = << >>
          /\ current_playback_source' = NoSource
          /\ mpris' = ReportStopped ]_vars

(* C4 witness: Next found index 2 of a three-track album and stopped *)
C4_Witness ==
    /\ last.op = "CmdNext" /\ last.out = "none"
    /\ last.before.kind = "Album"
    /\ last.before.current_index = 2 /\ Len(last.before.album_songs) = 3
    /\ current_playback_source = NoSource
    /\ mpris = ReportStopped

(* the index Previous goes to *)
PreviousIndex == IF SourceIndex > 0 THEN SourceIndex - 1 ELSE 0

(* C5: Previous with source Album{list, i} hands list[i-1] (list[0] when     *)
(* i = 0) to play_song and leaves the queue alone; when the play succeeds    *)
(* the source is Album{list, i-1} (Album{list, 0} when i = 0)                *)
C5_PreviousInAlbum ==
    [][ (last'.op = "CmdPrevious" /\ current_playback_source.kind = "Album") =>
          /\ queue' = queue
          /\ last'.song = SourceSongs[PreviousIndex + 1].id
          /\ last'.out = "ok" =>
                /\ current_playback_source' = SourceAlbum(SourceSongs, PreviousIndex)
                /\ mpris'.current_song = MprisSong(SourceSongs[PreviousIndex + 1])
                /\ mpris'.playback_status = "Playing" ]_vars

(* C5 witness: Previous at index 0 replayed index 0 with tracks waiting in *)
(* the queue                                                               *)
C5_Witness ==
    /\ last.op = "CmdPrevious" /\ last.out = "ok"
    /\ last.before.kind = "Album" /\ last.before.current_index = 0
    /\ current_playback_source = last.before
    /\ queue # << >>

(* C6 (as claimed): a failed play attempt leaves the queue and the *)
(* PlaybackSource as they were before the attempt                  *)
C6_FailedPlayKeepsState ==
    [][ last'.out \in {"fetch_fail", "decode_fail"} =>
          /\ queue' = queue
          /\ current_playback_source' = current_playback_source ]_vars

(* C7 (as claimed): a failed load (Select drill-down or confirmed search) *)
(* leaves the view, both ids, the lists and the cursor as they were       *)
C7_FailedLoadKeepsView ==
    [][ last'.out = "load_fail" => UNCHANGED navVars ]_vars

(* C8 (as claimed): current_artist_id is present only in Albums or Songs *)
C8_ArtistIdOnlyInAlbumsOrSongs ==
    current_artist_id # None => current_view \in {"Albums", "Songs"}

(* C9 (as claimed): current_album_id is present only in Songs *)
C9_AlbumIdOnlyInSongs ==
    current_album_id # None => current_view = "Songs"

(* C10: after Artists (both ids absent) -> Albums -> Songs by two successful *)
(* Selects, the first Back shows Albums with the album id absent and the     *)
(* artist id still the selected artist's, the second shows Artists with both *)
(* ids absent. drill counts the steps of that path.                          *)
C10_BackInvertsDrillDown ==
    /\ drill = 1 => /\ current_view = "Albums"
                    /\ current_artist_id # None /\ current_album_id = None
    /\ drill = 2 => /\ current_view = "Songs"
                    /\ current_artist_id # None /\ current_album_id # None
    /\ drill = 3 => /\ current_view = "Albums"
                    /\ current_artist_id # None /\ current_album_id = None
    /\ drill = 4 => /\ current_view = "Artists"
                    /\ current_artist_id = None /\ current_album_id = None

(* C10 witness: the second Back has just returned to Artists *)
C10_Witness ==
    /\ drill = 4
    /\ last.op \in {"Back", "Left"}
    /\ current_view = "Artists"

(* a step that handed a song to play_song and got Ok back *)
PlayStarted == last'.out = "ok" /\ last'.song # None

(* play-next-in-queue called with nothing left in the queue (key n) *)
QueueExhaustedStep == last'.op = "PlayNext" /\ queue = << >>

(* an advance with an empty queue at the last index of an album context *)
AlbumExhaustedStep ==
    /\ AdvanceStep
    /\ queue = << >>
    /\ current_playback_source.kind = "Album"
    /\ SourceIndex + 1 >= Len(SourceSongs)

(* C11 (as claimed): the PlaybackSource is absent after the remote Stop,     *)
(* after play-next-in-queue finds the queue exhausted and after an advance   *)
(* past the last track of an album; it is present after every successful     *)
(* track start                                                               *)
C11_SourceAbsentAfterStop ==
    [][ /\ last'.op = "CmdStop" => current_playback_source' = NoSource
        /\ QueueExhaustedStep => current_playback_source' = NoSource
        /\ AlbumExhaustedStep => current_playback_source' = NoSource
        /\ PlayStarted => current_playback_source' # NoSource ]_vars

(* what the program shows of its playback: queue, source, bus status, track *)
PlaybackView ==
    [queue |-> queue, source |-> current_playback_source,
     status |-> mpris.playback_status, song |-> mpris.current_song]

(* MprisCommand::Next with an empty queue, as a function of the state it     *)
(* finds and of how the play attempt (if any) ends                           *)
NextResult(out) ==
    CASE current_playback_source.kind = "None" -> PlaybackView
      [] current_playback_source.kind = "Album" ->
            IF SourceIndex + 1 < Len(SourceSongs)
            THEN IF out = "ok"
                 THEN [queue |-> queue,
                       source |-> SourceAlbum(SourceSongs, SourceIndex + 1),
                       status |-> "Playing",
                       song |-> MprisSong(SourceSongs[SourceIndex + 2])]
                 ELSE [PlaybackView EXCEPT !.source = NoSource]
            ELSE [queue |-> queue, source |-> NoSource,
                  status |-> "Stopped", song |-> NoMprisSong]
      [] OTHER -> [PlaybackView EXCEPT !.source = NoSource, !.status = "Stopped"]

(* NextResult agrees with every CmdNext step taken on an empty queue *)
NextResultIsCmdNext ==
    [][ (last'.op = "CmdNext" /\ queue = << >>) =>
            PlaybackView' = NextResult(last'.out) ]_vars

(* C12 (as claimed): with an empty queue and bus status Playing, handling a  *)
(* natural track finish leaves the same queue, PlaybackSource, bus status    *)
(* and now-playing track as the remote Next would from that state, whatever  *)
(* the PlaybackSource is, absent included                                    *)
C12_FinishEqualsNext ==
    [][ (last'.op = "FinishCheck" /\ FinishDetected /\ queue = << >>) =>
            PlaybackView' = NextResult(last'.out) ]_vars

(* C13: Next with an empty queue and a Queue or Search source (the variant   *)
(* Other is never constructed) hands no song to play_song, leaves the sink   *)
(* and the queue alone, clears the source and reports Stopped                *)
C13_NextOtherSourceStops ==
    [][ ( /\ last'.op = "CmdNext"
          /\ queue = << >>
          /\ current_playback_source.kind \in {"Queue", "Search"} ) =>
          /\ last'.song = None /\ last'.out = "none"
          /\ sink' = sink
          /\ queue' = << >>
          /\ current_playback_source' = NoSource
          /\ mpris'.playback_status = "Stopped" ]_vars

(* C13 witness: Next arrived after the queue had been played to its end *)
C13_Witness ==
    /\ last.op = "CmdNext" /\ last.out = "none"
    /\ last.before = SourceQueue
    /\ queue = << >>
    /\ current_playback_source = NoSource
    /\ mpris.playback_status = "Stopped"

(* Previous leaves source, queue, sink and bus-visible state as they were *)
PreviousNoOp == UNCHANGED <<current_playback_source, queue, sink, mpris>>

(* C14 (as claimed): Previous with a Queue or Search source hands the track  *)
(* the bus reports to play_song and, when the play succeeds, the source is   *)
(* the one it was and the bus reports that track as Playing; with no track   *)
(* reported, or with no source, Previous changes neither source, queue, sink *)
(* nor bus-visible state                                                     *)
C14_PreviousNonAlbum ==
    [][ last'.op = "CmdPrevious" =>
          /\ ( /\ current_playback_source.kind \in {"Queue", "Search"}
               /\ mpris.current_song # NoMprisSong ) =>
                 /\ last'.song = mpris.current_song.id
                 /\ queue' = queue
                 /\ last'.out = "ok" =>
                       /\ current_playback_source' = current_playback_source
                       /\ mpris'.current_song = mpris.current_song
                       /\ mpris'.playback_status = "Playing"
          /\ ( /\ current_playback_source.kind # "Album"
               /\ mpris.current_song = NoMprisSong ) => PreviousNoOp
          /\ current_playback_source = NoSource => PreviousNoOp ]_vars

(* C15: after a play that succeeded, the source records where the track came *)
(* from: Select in Songs at cursor i gives Album{songs as displayed, i},     *)
(* Select on a Search song hit gives Search, a track taken from the queue    *)
(* gives Queue; in each case the bus reports Playing and the track started   *)
C15_SourceRecordsOrigin ==
    [][ PlayStarted =>
          /\ (last'.op = "Select" /\ current_view = "Songs") =>
                /\ current_playback_source' = SourceAlbum(songs, selected)
                /\ mpris'.current_song = MprisSong(songs[selected + 1])
          /\ (last'.op = "Select" /\ current_view = "Search") =>
                /\ current_playback_source' = SourceSearch
                /\ mpris'.current_song =
                       MprisSong(SongFromHit(search_results[selected + 1]))
          /\ DequeueStep =>
                /\ current_playback_source' = SourceQueue
                /\ mpris'.current_song = MprisSong(Head(queue))
          /\ mpris'.playback_status = "Playing"
          /\ mpris'.current_song.id = last'.song ]_vars

(* C15 witness: Select at cursor 1 of the Songs view started the second song *)
C15_Witness ==
    /\ last.op = "Select" /\ last.out = "ok"
    /\ current_view = "Songs" /\ selected = 1
    /\ current_playback_source = SourceAlbum(songs, 1)
    /\ mpris = [playback_status |-> "Playing", current_song |-> MprisSong(songs[2])]

(* the view Back / Left leaves a view for *)
BackTarget ==
    CASE current_view = "Albums" -> "Artists"
      [] current_view = "Songs" -> "Albums"
      [] current_view = "Search" -> "Artists"
      [] OTHER -> current_view

(* the view Select leaves a view for: a load moves down, a play stays *)
SelectTarget ==
    IF SelectKind # "load" THEN current_view
    ELSE IF current_view = "Artists" THEN "Albums" ELSE "Songs"

(* C16: current_view changes only by Select (Artists -> Albums, Albums ->    *)
(* Songs, Search -> Songs on an album hit), by Back (Albums -> Artists,      *)
(* Songs -> Albums, Search -> Artists) and by a confirmed search (any view   *)
(* -> Search); Select in Songs or on a Search song hit keeps the view, and   *)
(* so does every remote command and every playback step                      *)
C16_ViewEdges ==
    [][ /\ last'.op = "Select" => current_view' = SelectTarget
        /\ last'.op \in {"Back", "Left"} => current_view' = BackTarget
        /\ last'.op = "Search" => current_view' = "Search"
        /\ last'.op \notin {"Select", "Back", "Left", "Search"} =>
              current_view' = current_view ]_vars

(* C16 witness: with a track playing, Select on the album hit of a search    *)
(* has moved from Search to Songs                                            *)
C16_Witness ==
    /\ last.op = "Select" /\ last.out = "ok"
    /\ current_view = "Songs" /\ search_results # << >>
    /\ current_album_id = search_results[1].id
    /\ mpris.playback_status = "Playing"

ListReplacingStep ==
    \/ last'.op = "Select" /\ SelectKind = "load"
    \/ last'.op = "Search"

(* C18 (as claimed): after a Select that replaces the displayed list and     *)
(* after a confirmed search the cursor is 0 when the list now displayed is   *)
(* non-empty and 'no selection' when it is empty                             *)
C18_CursorResetOnListReplace ==
    [][ ListReplacingStep =>
            selected' = IF items_count' > 0 THEN 0 ELSE NoSel ]_vars

(* a key press reached handle_key *)
KeyStep == pc = "input" /\ last'.op # "NoEvent"

(* what a key press can be while a mode is active *)
ModeOps == {"HelpClose", "Ignored", "SearchCancel", "SearchBackspace", "SearchChar",
            "Search"}

(* C19: while search mode or the help overlay is active a key press leaves   *)
(* view, cursor, artist/album ids, queue and PlaybackSource alone, except    *)
(* Enter in search mode, the only key that produces an action: it leaves     *)
(* search mode, switches the view to Search and runs the query on the text   *)
(* buffer. Esc in search mode empties the buffer and leaves search mode, and *)
(* since no step taken in search mode but the confirmation changes the view, *)
(* the view is then the one search mode was entered from. Under the help     *)
(* overlay every key leaves all navigation state and the search mode alone   *)
C19_ModesFrame ==
    [][ /\ ((in_search \/ help_open) /\ KeyStep) =>
              /\ last'.op \in ModeOps
              /\ last'.op = "Search" =>
                    /\ in_search /\ ~help_open
                    /\ ~in_search'
                    /\ current_view' = "Search"
                    /\ last'.out = "ok" => search_results' = SearchItems(search_string)
              /\ last'.op # "Search" =>
                    UNCHANGED <<current_view, selected, current_artist_id,
                                current_album_id>>
              /\ UNCHANGED <<queue, current_playback_source>>
              /\ last'.op = "SearchCancel" => (search_string' = << >> /\ ~in_search')
              /\ help_open => UNCHANGED <<navVars, in_search, search_string>>
        /\ (in_search /\ last'.op # "Search") => current_view' = current_view ]_vars

(* C19 witness: search mode entered from the Songs view has been cancelled *)
C19_Witness ==
    /\ last.op = "SearchCancel"
    /\ current_view = "Songs"
    /\ ~in_search /\ search_string = << >>
    /\ songs # << >>

(* C20: the remote Play unpauses a paused sink and reports Playing, leaving  *)
(* queue, source and reported track alone; with the sink not paused and the  *)
(* queue non-empty it removes the head of the queue and hands it to          *)
(* play_song (source Queue and that track reported as Playing when the play  *)
(* succeeds); otherwise it changes nothing                                   *)
C20_RemotePlay ==
    [][ last'.op = "CmdPlay" =>
          IF is_paused(sink)
          THEN /\ sink' = [sink EXCEPT !.paused = FALSE]
               /\ mpris' = [mpris EXCEPT !.playback_status = "Playing"]
               /\ UNCHANGED <<queue, current_playback_source>>
               /\ last'.song = None
          ELSE IF queue # << >>
          THEN /\ queue' = Tail(queue)
               /\ last'.song = Head(queue).id
               /\ last'.out \in PlayOutcomes
               /\ last'.out = "ok" =>
                     /\ current_playback_source' = SourceQueue
                     /\ mpris' = [playback_status |-> "Playing",
                                  current_song |-> MprisSong(Head(queue))]
          ELSE UNCHANGED playVars ]_vars

(* C20 witness: Play resumed a paused track and left the waiting queue alone *)
C20_Witness ==
    /\ last.op = "CmdPlay" /\ last.out = "none"
    /\ queue # << >>
    /\ sink = LoadedSink
    /\ mpris.playback_status = "Playing"

(* the bus-visible status mirrors the sink *)
StatusMirrorsSink ==
    /\ mpris.playback_status = "Paused" <=> is_paused(sink)
    /\ mpris.playback_status = "Playing" => (~is_finished(sink) /\ ~is_paused(sink))

(* C21 (as claimed): right after a pause toggle (remote PlayPause or the     *)
(* pause key) the bus-visible status is Paused exactly when the sink is      *)
(* paused, and Playing only when the sink holds a track and is not paused    *)
C21_ToggleReportsSinkState ==
    last.op \in {"CmdPlayPause", "TogglePause"} => StatusMirrorsSink

(* the steps of an iteration that are neither a remote command nor a key *)
LoopOps == {"MessageCheck", "DrainDone", "FinishCheck", "NoEvent", "TrackEnds"}

(* C22: the remote Stop leaves the sink halted and empty, the status Stopped *)
(* and the queue as it was; while the status is Stopped the finish check     *)
(* hands no song to play_song and changes nothing, and the steps of the loop *)
(* that are neither a key nor a remote command keep the status Stopped and   *)
(* the sink empty, so no track starts until a key or a command acts          *)
C22_StopStaysStopped ==
    [][ /\ last'.op = "CmdStop" =>
              /\ sink' = StoppedSink
              /\ mpris'.playback_status = "Stopped"
              /\ queue' = queue
        /\ (mpris.playback_status = "Stopped" /\ last'.op = "FinishCheck") =>
              /\ last'.out = "skip" /\ last'.song = None
              /\ UNCHANGED playVars
        /\ ( /\ mpris.playback_status = "Stopped" /\ is_finished(sink)
             /\ last'.op \in LoopOps ) =>
              /\ mpris'.playback_status = "Stopped"
              /\ is_finished(sink') ]_vars

(* C22 witness: the finish check has run on the stopped sink with a track *)
(* waiting in the queue and an album context in place, and started none   *)
C22_Witness ==
    /\ last.op = "FinishCheck" /\ last.out = "skip"
    /\ sink = StoppedSink
    /\ mpris.playback_status = "Stopped"
    /\ queue # << >>
    /\ current_playback_source.kind = "Album"

(* the handler each command is matched to *)
HandlerOf(cmd) == IF cmd = "Seek" THEN "CmdOther" ELSE "Cmd" \o cmd

CmdOps == {HandlerOf(cmd) : cmd \in MprisCommand}

(* a command arrives in the channel *)
SendStep == Len(mpris_command_rx') > Len(mpris_command_rx)

(* the order of the phases of one iteration *)
PhaseOrder ==
    {<<"tick", "drain">>, <<"drain", "finish">>, <<"finish", "input">>,
     <<"input", "tick">>, <<"input", "done">>}

(* C23: a command handler runs only in the drain and, when commands are      *)
(* pending, it is the handler of the oldest one, which leaves the channel;   *)
(* sending appends at the tail; the drain ends only on an empty channel and  *)
(* then goes to the finish check, which goes to the input poll; with an      *)
(* empty channel the drain can end at once; a key is handled only in the     *)
(* input phase and ends that phase, so one iteration applies one Action at   *)
(* most                                                                      *)
C23_DrainOrder ==
    [][ /\ SendStep =>
              /\ \E cmd \in MprisCommand :
                     mpris_command_rx' = Append(mpris_command_rx, cmd)
              /\ UNCHANGED <<pc, last>>
        /\ (~SendStep /\ last'.op # "TrackEnds") =>
              /\ last'.op \in CmdOps =>
                    /\ pc = "drain" /\ pc' = "drain"
                    /\ mpris_command_rx # << >> =>
                          /\ last'.op = HandlerOf(Head(mpris_command_rx))
                          /\ mpris_command_rx' = Tail(mpris_command_rx)
              /\ last'.op \notin CmdOps => UNCHANGED mpris_command_rx
              /\ pc = "drain" => last'.op \in CmdOps \cup {"DrainDone"}
              /\ pc = "finish" => last'.op = "FinishCheck"
              /\ pc = "input" => pc' # "input"
        /\ (~SendStep /\ last'.op = "TrackEnds") => UNCHANGED <<pc, mpris_command_rx>>
        /\ pc' # pc =>
              /\ <<pc, pc'>> \in PhaseOrder
              /\ pc = "drain" => mpris_command_rx = << >>
        /\ (pc = "drain" /\ mpris_command_rx = << >>) => ENABLED DrainDone ]_vars

(* C23 witness: of two commands that were pending the older one, PlayPause, *)
(* has been applied and the newer one, Stop, is next                        *)
C23_Witness ==
    /\ pc = "drain"
    /\ last.op = "CmdPlayPause"
    /\ mpris_command_rx = <<"Stop">>

(* the loop has asked for the write guard, or has it *)
LoopWantsWrite == Awaits("loop", "write") \/ mpris_state_lock.writer = "loop"

(* the loop is at an await that is not on the lock: the media server inside *)
(* a handler, or the terminal poll between handlers                         *)
LoopAtOtherAwait == pc # "handler" \/ Head(loop_steps) = "net"

(* C24: the loop and the bus listener never deadlock on the bus-state lock:   *)
(* the loop never asks for the write guard while it holds a read guard of its *)
(* own, neither side holds a guard across another await, and every request is *)
(* served and every guard released                                             *)
C24_NoLockDeadlock ==
    /\ [](~("loop" \in mpris_state_lock.readers /\ LoopWantsWrite))
    /\ [](LoopAtOtherAwait => (~Holds("loop") /\ ~Waits("loop")))
    /\ [](mpris_state_lock.writer # "bus" /\ ~Awaits("bus", "write"))
    /\ \A task \in Tasks :
          /\ Holds(task) ~> ~Holds(task)
          /\ Waits(task) ~> ~Waits(task)

(* C24 witness: the Previous handler, on a track that was started from a      *)
(* search hit, has dropped its read guard and awaits the write guard behind a *)
(* property reader                                                            *)
C24_Witness ==
    /\ pc = "handler"
    /\ last.op = "CmdPrevious" /\ last.before.kind = "Search" /\ last.out = "ok"
    /\ Awaits("loop", "write")
    /\ "bus" \in mpris_state_lock.readers

(* the handlers that advance playback: they call play_next_in_queue, or take *)
(* the queue head themselves (RestartQueue)                                   *)
AdvanceOps == {"CmdPlay", "CmdNext", "FinishCheck", "PlayNext", "RestartQueue"}

(* C25: the queue changes only by AddToQueue (one track appended at the tail, *)
(* for a song in the Songs view or a song hit in the Search view), by         *)
(* remove-front, by clear, and by the dequeue of index 0 in a handler that    *)
(* advances playback; every other step leaves it unchanged                    *)
C25_QueueFrame ==
    [][ queue' # queue =>
          \/ /\ last'.op = "AddToQueue"
             /\ CanAdd
             /\ queue' = Append(queue, SelectSong)
          \/ /\ last'.op = "Remove"
             /\ queue' = Tail(queue)
          \/ /\ last'.op = "Clear"
             /\ queue' = << >>
          \/ /\ last'.op \in AdvanceOps
             /\ last'.song = Head(queue).id
             /\ queue' = Tail(queue) ]_vars

(* C25 witness: a second, different track has been added behind the first *)
C25_Witness ==
    /\ last.op = "AddToQueue"
    /\ Len(queue) = 2
    /\ queue[1] # queue[2]

(* an advance ends playback: nothing is started, the source is cleared and *)
(* the bus reports Stopped                                                 *)
AdvanceEndsPlayback ==
    /\ last'.op \in {"CmdNext", "FinishCheck"}
    /\ last'.song = None
    /\ current_playback_source' = NoSource
    /\ mpris'.playback_status = "Stopped"

(* C26: the PlaybackSource changes only at a track transition (a track start, *)
(* or an advance that ends playback), and an album source keeps the identical *)
(* track list across Next, Previous and finish events, whatever the Songs     *)
(* view holds by then                                                         *)
C26_SourceFrame ==
    [][ /\ current_playback_source' # current_playback_source =>
              (PlayStarted \/ AdvanceEndsPlayback)
        /\ ( /\ last'.op \in {"CmdNext", "CmdPrevious", "FinishCheck"}
             /\ current_playback_source.kind = "Album"
             /\ current_playback_source'.kind = "Album" ) =>
              current_playback_source'.album_songs = current_playback_source.album_songs
      ]_vars

(* the expiry check of this step removes the message on display *)
MessageCleared ==
    /\ status_message_timeout # NoTimeout
    /\ status_message_timeout' = NoTimeout

C28_NotBeforeDeadline ==
    [][ MessageCleared => elapsed(message_set_at) >= status_message_timeout ]_vars

(* the value the claim gives for SetVolume(v), v a number *)
ClampedTo01(v) == IF v < 0 THEN 0 ELSE IF v > 10 THEN 10 ELSE v

(* C29: SetVolume(v) applies and reports v clamped to [0,1] (0 for v < 0,   *)
(* 1 for v > 1, v otherwise), on the sink and on the bus, and the volume on *)
(* the bus is within [0,1] in every reachable state                         *)
C29_VolumeClamped ==
    /\ [](volume \in 0..10)
    /\ [][ ( /\ last'.op = "CmdSetVolume"
             /\ mpris_command_rx # << >>
             /\ mpris_command_rx' = Tail(mpris_command_rx)
             /\ Head(mpris_command_rx)[2] # NaN ) =>
              /\ volume' = ClampedTo01(Head(mpris_command_rx)[2])
              /\ sink_volume' = ClampedTo01(Head(mpris_command_rx)[2]) ]_vars

(* C30: after a successful search the Search list shows one row per hit:    *)
(* every album hit in the order received, tagged [A], then every song hit   *)
(* in the order received, tagged [S], and nothing of an earlier search      *)
C30_SearchRows ==
    (last.op = "Search" /\ last.out = "ok") =>
        LET album == ServerSearchAlbums(search_string)
            song == ServerSearchSongs(search_string)
        IN /\ current_view = "Search"
           /\ Len(render_list) = Len(album) + Len(song)
           /\ \A i \in 1..Len(album) :
                 render_list[i] = [tag |-> "[A]", id |-> album[i].id]
           /\ \A i \in 1..Len(song) :
                 render_list[Len(album) + i] = [tag |-> "[S]", id |-> song[i].id]

(* C30 witness: the search for "y" has returned two album hits and two song *)
(* hits, and the list shows four rows                                       *)
C30_Witness ==
    /\ last.op = "Search" /\ last.out = "ok"
    /\ search_string = <<"y">>
    /\ Len(search_results) = 4

(* C31: an album source Album{list, i} always has a non-empty list and an *)
(* index inside it, so Next and Previous never index outside the list     *)
C31_AlbumIndexInRange ==
    current_playback_source.kind = "Album" =>
        /\ Len(current_playback_source.album_songs) > 0
        /\ current_playback_source.current_index >= 0
        /\ current_playback_source.current_index
             < Len(current_playback_source.album_songs)

(* C31 witness: Next has moved the album source to its last track *)
C31_Witness ==
    /\ last.op = "CmdNext" /\ last.out = "ok"
    /\ current_playback_source.kind = "Album"
    /\ current_playback_source.current_index
         = Len(current_playback_source.album_songs) - 1
    /\ current_playback_source.current_index > 0

(* C32: the cursor is either "no selection" or an index below the length of *)
(* the list of the current view                                             *)
C32_CursorInList ==
    selected = NoSel \/ (selected >= 0 /\ selected < items_count)

(* C33: the list on display holds the data of the current context: in the  *)
(* Albums view the albums loaded for current_artist_id, in the Songs view  *)
(* the songs loaded for current_album_id                                   *)
C33_ListMatchesContext ==
    /\ current_view = "Albums" => albums = ServerAlbums(current_artist_id)
    /\ current_view = "Songs" => songs = LoadedSongs(current_album_id)

(* ---------------- C34 ---------------- *)
(* C34: whenever the bus-visible status is Stopped the sink is not playing *)
(* a track, that is, the sink is empty or halted (paused).                 *)
C34_StoppedMeansSilent ==
    mpris.playback_status = "Stopped" => (sink.empty \/ sink.paused)

(* ---------------- the loop left alone between events ---------------- *)
(* The three steps of an iteration in which nothing arrives leave `last` as *)
(* it is, so that `last` names the latest command, key, track end or finish *)
(* check that did something, however many idle iterations ago it was.       *)
(* draw + "Check message timeout" *)
IdleMessageCheck ==
    /\ pc = "tick"
    /\ pc' = "drain"
    /\ \E expired \in IF status_message_timeout = NoTimeout THEN {FALSE} ELSE BOOLEAN :
         status_message_timeout' = IF expired THEN NoTimeout ELSE status_message_timeout
    /\ UNCHANGED <<navVars, modeVars, playVars, mpris_command_rx, sideVars, last, drill>>

(* try_recv() returns Err(Empty) *)
IdleDrainDone ==
    /\ pc = "drain"
    /\ mpris_command_rx = << >>
    /\ pc' = "finish"
    /\ UNCHANGED <<navVars, modeVars, status_message_timeout, playVars, mpris_command_rx,
                   sideVars, last, drill>>

(* mutant: the finish check looks at the reported status only, not at the sink *)
IdleFinishCheckStatusOnly ==
    /\ pc = "finish"
    /\ pc' = "input"
    /\ UNCHANGED <<navVars, modeVars, mpris_command_rx, sideVars, drill>>
    /\ IF mpris.playback_status # "Playing"
       THEN UNCHANGED <<playVars, status_message_timeout, last>>
       ELSE \E out \in Outcomes(AdvanceSong # None) :
            /\ last' = Did("FinishCheck", out, AdvanceSong)
            /\ IF queue # << >>
               THEN play_next_in_queue(out, FALSE)
               ELSE IF current_playback_source.kind = "Album"
               THEN /\ play_next_in_album(current_playback_source.album_songs,
                                          current_playback_source.current_index, out)
                    /\ UNCHANGED queue
               ELSE /\ current_playback_source' = NoSource
                    /\ mpris' = [mpris EXCEPT !.playback_status = "Stopped"]
                    /\ UNCHANGED <<queue, sink, status_message_timeout>>

(* "Check if audio finished playing": a check that finds nothing to do *)
(* leaves no trace                                                     *)
IdleFinishCheck ==
    /\ pc = "finish"
    /\ pc' = "input"
    /\ UNCHANGED <<navVars, modeVars, mpris_command_rx, sideVars, drill>>
    /\ IF ~FinishDetected
       THEN UNCHANGED <<playVars, status_message_timeout, last>>
       ELSE finish_check

(* event::poll times out *)
IdleNoEvent ==
    /\ pc = "input"
    /\ pc' = "tick"
    /\ UNCHANGED <<navVars, modeVars, status_message_timeout, playVars, mpris_command_rx,
                   sideVars, last, drill>>

(* a remote Next that the drain receives in the iteration in which the *)
(* track in the sink has played to its end                             *)
NextAtFinish == FinishDetected /\ CmdNext

NextIdle ==
    \/ IdleMessageCheck
    \/ IdleDrainDone
    \/ IdleFinishCheck
    \/ IdleNoEvent
    \/ SinkTrackEnds
    \/ NextAtFinish
    \/ CmdPlayPause
    \/ CmdStop
    \/ KeyDown
    \/ KeySelect
    \/ KeyAdd
    \/ KeySpace

SpecIdle == InitPlay /\ [][NextIdle]_vars

(* ---------------- C35 ---------------- *)
(* the latest thing that happened is a finish check whose play failed *)
FinishPlayFailed ==
    /\ last.op = "FinishCheck"
    /\ last.out \in {"fetch_fail", "decode_fail"}

(* C35: after a finish check whose play failed, the finish checks of the    *)
(* following iterations dequeue nothing as long as no command, key or track *)
(* end comes in between.                                                    *)
C35_OneEntryPerFinish ==
    [][(FinishPlayFailed /\ pc = "finish") => queue' = queue]_vars

(* ---------------- C36 ---------------- *)
(* the step handles a pause toggle: the space key (Action::TogglePause) or a *)
(* remote PlayPause                                                          *)
PauseToggleStep ==
    \/ pc = "input" /\ pc' = "tick" /\ last'.op = "TogglePause"
    \/ pc = "drain" /\ pc' = "drain" /\ last'.op = "CmdPlayPause"

(* a track is put into the empty sink *)
TrackStarts == sink.empty /\ ~sink'.empty

(* C36: a pause toggle removes nothing from the queue and starts no track,  *)
(* and it does not make the finish check fire: when the finish condition    *)
(* did not hold before the toggle it does not hold after it. The idle steps *)
(* of the loop leave sink, status and queue alone, so the finish checks of  *)
(* the later iterations fire exactly when the condition holds after the     *)
(* toggle, and a firing check takes the head of a non-empty queue.          *)
C36_ToggleStartsNothing ==
    [][PauseToggleStep =>
          /\ queue' = queue
          /\ ~TrackStarts
          /\ ~FinishDetected => ~FinishDetected']_vars

(* ---------------- C37 ---------------- *)
(* the drain handles a Next; under SpecIdle that is NextAtFinish, a Next in *)
(* the iteration in which the track has played to its end                   *)
NextStep == pc = "drain" /\ pc' = "drain" /\ last'.op = "CmdNext"

(* one queue entry is consumed, or the album index moves from i to i+1 *)
OneAdvance ==
    IF queue # << >>
    THEN /\ queue' = Tail(queue)
         /\ mpris'.current_song = MprisSong(Head(queue))
    ELSE /\ queue' = queue
         /\ current_playback_source.kind = "Album"
         /\ current_playback_source' =
                SourceAlbum(current_playback_source.album_songs,
                            current_playback_source.current_index + 1)

(* C37: a Next handled in the iteration in which the track has finished, *)
(* with its play succeeding, advances once (one queue entry, or album    *)
(* index i to i+1), and the finish check of that iteration advances no   *)
(* further: it leaves queue, source, sink and bus state as they are.     *)
C37_NextAndFinishAdvanceOnce ==
    [][/\ (NextStep /\ last'.out = "ok") => OneAdvance
       /\ (last.op = "CmdNext" /\ last.out = "ok" /\ pc = "finish" /\ pc' = "input")
             => UNCHANGED playVars]_vars

(* the album moved from index i to i+1 by such a Next, after the finish *)
(* check of the same iteration                                          *)
C37_Witness ==
    /\ last.op = "CmdNext" /\ last.out = "ok"
    /\ pc = "input"
    /\ queue = << >>
    /\ last.before.kind = "Album"
    /\ current_playback_source =
           SourceAlbum(last.before.album_songs, last.before.current_index + 1)
    /\ sink = LoadedSink

(* ---------------- the bus state as a property reader sees it ---------------- *)
(* MprisServer::update_current_song and update_playback_status each take the    *)
(* write guard, assign one field of MprisState and return. The lock keeps a     *)
(* reader out while a guard is held and lets it in between two calls, so each   *)
(* call is one step here and a read is one step; `mpris` is the value the       *)
(* running handler will have written when all its calls are made.               *)
update_current_song(song) == [field |-> "current_song", value |-> song]

update_playback_status(status) == [field |-> "playback_status", value |-> status]

(* play_song: update_current_song(Some(..)) + update_playback_status(Playing), *)
(* reached only when fetch and decode succeeded                                *)
play_song_updates(song, out) ==
    IF out = "ok"
    THEN <<update_current_song(MprisSong(song)), update_playback_status("Playing")>>
    ELSE << >>

(* update_current_song(None, None) + update_playback_status(Stopped) *)
report_stopped_updates ==
    <<update_current_song(NoMprisSong), update_playback_status("Stopped")>>

(* the update_* calls of the finish check *)
FinishUpdates(out) ==
    IF ~FinishDetected THEN << >>
    ELSE IF queue # << >> THEN play_song_updates(Head(queue), out)
    ELSE IF current_playback_source.kind = "Album"
    THEN (IF out = "none" THEN report_stopped_updates
          ELSE play_song_updates(
                   current_playback_source.album_songs[
                       current_playback_source.current_index + 2], out))
    ELSE <<update_playback_status("Stopped")>>

(* a handler begins: its update_* calls are still to come, and after them *)
(* the loop resumes at `resume`                                           *)
BusEnter(updates, resume) ==
    /\ pc' = "handler"
    /\ bus_updates' = Append(updates, [field |-> "pc", value |-> resume])
    /\ bus_from' = mpris_state
    /\ UNCHANGED <<mpris_state, observed, notBus>>

(* the running handler makes its next update_* call, which waits while a *)
(* reader holds its guard; after the last call the loop goes on          *)
BusWrite ==
    /\ pc = "handler"
    /\ bus_updates' = Tail(bus_updates)
    /\ IF Head(bus_updates).field = "pc"
       THEN /\ pc' = Head(bus_updates).value
            /\ UNCHANGED mpris_state
       ELSE /\ observed = NoRead
            /\ mpris_state' = [mpris_state EXCEPT
                                  ![Head(bus_updates).field] = Head(bus_updates).value]
            /\ UNCHANGED pc
    /\ UNCHANGED <<navVars, modeVars, status_message_timeout, playVars, mpris_command_rx,
                   bus_from, observed, notBus, last, drill>>

(* a bus client reads PlaybackStatus and Metadata: the reader gets its read *)
(* guard between two update_* calls and sees the value under the lock       *)
BusRead ==
    /\ pc # "done"
    /\ observed = NoRead
    /\ observed' = mpris_state
    /\ UNCHANGED <<navVars, modeVars, status_message_timeout, playVars, mpris_command_rx,
                   mpris_state, bus_from, bus_updates, notBus, pc, last, drill>>

(* the reader returns and its guard goes out of scope *)
BusReadDone ==
    /\ observed # NoRead
    /\ observed' = NoRead
    /\ UNCHANGED <<navVars, modeVars, status_message_timeout, playVars, mpris_command_rx,
                   mpris_state, bus_from, bus_updates, notBus, pc, last, drill>>

(* Action::Select with its update_* calls *)
BusKeySelect ==
    /\ pc = "input" /\ ~help_open /\ ~in_search
    /\ \E out \in CASE SelectKind = "load" -> LoadOutcomes
                    [] SelectKind = "play" -> PlayOutcomes
                    [] OTHER -> {"none"} :
         /\ handle_select(out)
         /\ last' = Did("Select", out,
                        IF SelectKind = "play" THEN SelectSong.id ELSE None)
         /\ BusEnter(IF SelectKind = "play"
                     THEN play_song_updates(SelectSong, out) ELSE << >>, "tick")
    /\ UNCHANGED <<modeVars, mpris_command_rx>>

(* Action::PlayNext with its update_* calls *)
BusKeyPlayNext ==
    /\ pc = "input" /\ ~help_open /\ ~in_search
    /\ \E out \in Outcomes(queue # << >>) :
         /\ last' = Did("PlayNext", out, IF queue # << >> THEN Head(queue).id ELSE None)
         /\ play_next_in_queue(out, TRUE)
         /\ BusEnter(IF queue # << >> THEN play_song_updates(Head(queue), out)
                     ELSE report_stopped_updates, "tick")
    /\ UNCHANGED <<navVars, modeVars, mpris_command_rx, drill>>

(* the finish check with its update_* calls *)
BusFinishCheck ==
    /\ pc = "finish"
    /\ finish_check
    /\ BusEnter(FinishUpdates(last'.out), "input")
    /\ UNCHANGED <<navVars, modeVars, mpris_command_rx, drill>>

NextBus ==
    \/ MessageCheck
    \/ DrainDone
    \/ NoEvent
    \/ KeyDown
    \/ KeyAdd
    \/ BusFinishCheck
    \/ BusKeySelect
    \/ BusKeyPlayNext
    \/ BusWrite
    \/ BusRead
    \/ BusReadDone
    \/ SinkTrackEnds

SpecBus == InitPlay /\ [][NextBus]_vars

(* between handlers the value under the lock is the value the handlers of *)
(* the loop have reported                                                 *)
SettledStateReported == pc # "handler" => mpris_state = mpris

(* ---------------- C38 ---------------- *)
(* C38: what a property reader reads is the bus state before the running   *)
(* handler's transition or the state after it, track and status together,  *)
(* never a state with only one of the two fields written.                  *)
C38_ReaderSeesWholeTransition ==
    observed # NoRead => observed \in {bus_from, mpris}

(* ---------------- an album left to play to its end ---------------- *)
(* The user moves the cursor, opens an album and starts a track; from then on *)
(* nothing is pressed and nothing arrives on the bus. The queue is empty and  *)
(* every play succeeds. run_start is the index the run was started at and     *)
(* finishes counts the tracks that have played to their end since, up to      *)
(* MaxFinishes, one more than the longest album has tracks.                   *)
RunStarted == run_start # NoSel

RunKeyDown == ~RunStarted /\ KeyDown

(* Action::Select: a load, or the play that starts the run *)
RunKeySelect ==
    /\ ~RunStarted
    /\ pc = "input" /\ ~help_open /\ ~in_search
    /\ pc' = "tick"
    /\ SelectKind # "none"
    /\ \E out \in IF SelectKind = "load" THEN LoadOutcomes ELSE {"ok"} :
         /\ handle_select(out)
         /\ last' = Did("Select", out,
                        IF SelectKind = "play" THEN SelectSong.id ELSE None)
    /\ run_start' = IF SelectKind = "play" /\ current_view = "Songs"
                    THEN selected ELSE run_start
    /\ finishes' = 0
    /\ UNCHANGED <<modeVars, mpris_command_rx, notRun>>

(* the track in the sink plays to its end *)
RunTrackEnds ==
    /\ ~sink.empty /\ ~sink.paused
    /\ finishes < MaxFinishes
    /\ sink' = [sink EXCEPT !.empty = TRUE]
    /\ last' = Did("TrackEnds", "none", None)
    /\ finishes' = IF RunStarted THEN finishes + 1 ELSE finishes
    /\ UNCHANGED <<navVars, modeVars, status_message_timeout, queue, current_playback_source,
                   mpris, mpris_command_rx, run_start, notRun, pc, drill>>

(* the finish check, its play succeeding *)
RunFinishCheck == FinishCheck /\ last'.out \in {"skip", "none", "ok"}

NextRun ==
    \/ MessageCheck
    \/ DrainDone
    \/ RunFinishCheck
    \/ NoEvent
    \/ RunKeyDown
    \/ RunKeySelect
    \/ RunTrackEnds

(* the loop keeps iterating, and a track that nobody pauses reaches its end *)
SpecRun ==
    /\ InitPlay
    /\ [][NextRun]_vars
    /\ WF_vars(MessageCheck)
    /\ WF_vars(DrainDone)
    /\ WF_vars(RunFinishCheck)
    /\ WF_vars(NoEvent)
    /\ WF_vars(RunTrackEnds)

(* ---------------- C39 ---------------- *)
(* the run is over: PlaybackSource absent and the bus status Stopped *)
RunEnded ==
    /\ RunStarted
    /\ current_playback_source = NoSource
    /\ mpris.playback_status = "Stopped"

(* C39: an album run started at index i of the n tracks on display reaches  *)
(* the state with no playback source and status Stopped; when it is there   *)
(* exactly n - i tracks have played to their end; and from there on the     *)
(* state stays and no track is started.                                     *)
C39_AlbumRunEnds ==
    /\ RunStarted ~> RunEnded
    /\ [](RunEnded => finishes = Len(songs) - run_start)
    /\ [][RunEnded => (RunEnded' /\ ~TrackStarts)]_vars

(* the three-track album played through from its first track *)
C39_Witness ==
    /\ RunEnded
    /\ run_start = 0
    /\ Len(songs) = 3
    /\ finishes = 3

(* ---------------- C40 ---------------- *)
(* C40: in every reachable state the volume the bus reports equals the *)
(* volume applied to the sink.                                         *)
C40_BusVolumeIsSinkVolume == volume = sink_volume

====
